---- MODULE Spec2Model ----
(***************************************************************************)
(* State-machine model of the hierarchical message bus (MessageBusImpl,    *)
(* SubscriptionRegistry, HandlerRegistration, LazyAsyncRegistration).      *)
(*                                                                         *)
(* JavaScript runs one job at a time.  The model keeps the microtask queue *)
(* as a FIFO of jobs (`micro'): a drain turn scheduled by queueMicrotask,  *)
(* the continuation of a veto check, the delivery to a pull-based          *)
(* registration.  One step of the model is either one call made by user    *)
(* code (publish, subscribe, dispose, ...) or the run of the job at the    *)
(* head of the microtask queue.  A job runs to completion: everything the  *)
(* code does synchronously inside it, user callbacks included, is part of  *)
(* the same step.                                                          *)
(***************************************************************************)
EXTENDS Integers, Sequences, FiniteSets, TLC

\* ------------------------------------------------------------------ bounds
\* Each specification bounds the bus objects created, the publish calls made
\* and the registrations created in one behaviour.
MaxBus == 4          \* size of the universe of bus objects
OrderMsgs == 3
OrderRegs == 3
PrioMsgs == 1
PrioRegs == 3
DispMsgs == 2
DispRegs == 2
VetoMsgs == 2
VetoRegs == 1
DownBus == 3
DownMsgs == 1
DownRegs == 3
UpBus == 3
UpMsgs == 1
UpRegs == 3
UniBus == 3
UniRegs == 2
AllBus == 3
AllMsgs == 1
AllRegs == 3
AggBus == 4
AggMsgs == 1
AggRegs == 2
AskBus == 3
AskMsgs == 1
AskRegs == 2
StopBus == 2
StopMsgs == 1
StopRegs == 2
ErrBus == 2
ErrMsgs == 1
ErrRegs == 3
LisBus == 2
LisMsgs == 2
LisRegs == 1
DieBus == 3
DieRegs == 2
GoneBus == 2
GoneMsgs == 1
GoneRegs == 2
LimitMax == 2
LimitMsgs == 3
LimitRegs == 2
LimitCalls == 2
ManyMsgs == 3
ManyRegs == 1
ChainLen == 3
ChainMsgs == 1
ChainRegs == 1
BuildMax == 2
BuildMsgs == 2
BuildRegs == 1
CopyBus == 3
CopyMsgs == 1
PostMsgs == 3
PostRegs == 1
PullMsgs == 3
PullRegs == 1
PullCalls == 3
HoldBus == 2
HoldRegs == 3
TellMsgs == 2
TellRegs == 2

\* ------------------------------------------------------- program constants
defaultLimit == 0 - 1
defaultPriority == 1

Bus == 1..MaxBus
NoBus == 0
Undefined == "undefined"

\* Topics used by the scenarios, with the options given to createTopic.
Topics == {"T", "P", "U", "UP"}

mode(t) == IF t \in {"U", "UP"} THEN "unicast" ELSE "multicast"

broadcastDirection(t) == IF t \in {"P", "UP"} THEN "parent" ELSE "children"

\* User callbacks are inputs.  A message handler either returns a value,
\* throws, publishes a further message on its own bus before returning, or
\* disposes another subscription before returning; "echo" returns the arguments
\* it was called with.  A pull-based subscription has no callback ("none");
\* "single" marks the one whose single() subscribeOnce(topic) awaits.
HandlerKinds == {"val", "err", "pub", "disp", "echo"}

\* Interceptors: "plain" has no isVetoed; "pass" has isVetoed returning false;
\* "veto" has isVetoed returning true; "slow" has an isVetoed that resolves to
\* false only after some external event (a timer, I/O).  The handler of each of
\* these calls next with the arguments it was given and returns its result.
\* "I1" and "I2" have an isVetoed returning false and a handler that calls
\* next(data, name, ...other) and returns the result with its name added.
Taggers == {"I1", "I2"}

\* Two more interceptors, with handlers like those above: the isVetoed of
\* "throws" throws; the isVetoed of "asks" publishes a further message on its
\* bus and returns false.
VetoError == <<"isVetoed failed">>

Interceptors == {"plain", "pass", "veto", "slow"} \cup Taggers

\* Listeners: "L1" and "L2" only observe, "LP" publishes a further message.
Listeners == {"L1", "L2", "LP"}

VARIABLES
  exists,        \* the bus objects created so far
  parent,        \* myParent (NoBus for a root)
  children,      \* myChildren, a Set in insertion order
  disposed,      \* myDisposed
  publishing,    \* myPublishing
  queue,         \* myPublishQueue: the messages whose task is pending
  listeners,     \* myListeners, a Set in insertion order
  interceptors,  \* myInterceptors, a Set in insertion order
  composed,      \* myInterceptor: the cached chain, or NoChain
  registry,      \* myRegistry.myMap: topic -> registrations in insertion order
  regs,          \* the registration objects, by creation order
  micro,         \* the microtask queue
  waiting,       \* veto checks suspended on a pending isVetoed promise
  msgs,          \* the messages published so far (payload = index)
  rep,           \* per awaited message and bus: what its task resolved to
  log,           \* history: listener, broadcast, handler and delivery events
  lim            \* the bounds of the scenario (never changes)

vars == <<exists, parent, children, disposed, publishing, queue, listeners,
          interceptors, composed, registry, regs, micro, waiting, msgs, rep, log,
          lim>>

NoChain == <<"none">>

\* The whole state as one record, so that nested calls can thread it.
Cur ==
  [exists |-> exists, parent |-> parent, children |-> children,
   disposed |-> disposed, publishing |-> publishing, queue |-> queue,
   listeners |-> listeners, interceptors |-> interceptors,
   composed |-> composed, registry |-> registry, regs |-> regs,
   micro |-> micro, waiting |-> waiting, msgs |-> msgs, rep |-> rep,
   log |-> log, lim |-> lim]

Commit(w) ==
  /\ exists' = w.exists
  /\ parent' = w.parent
  /\ children' = w.children
  /\ disposed' = w.disposed
  /\ publishing' = w.publishing
  /\ queue' = w.queue
  /\ listeners' = w.listeners
  /\ interceptors' = w.interceptors
  /\ composed' = w.composed
  /\ registry' = w.registry
  /\ regs' = w.regs
  /\ micro' = w.micro
  /\ waiting' = w.waiting
  /\ msgs' = w.msgs
  /\ rep' = w.rep
  /\ log' = w.log
  /\ lim' = w.lim

\* ------------------------------------------------------- sequence helpers
SeqSet(s) == {s[i] : i \in 1..Len(s)}

Contains(s, x) == \E i \in 1..Len(s) : s[i] = x

\* Set.add: append unless present.
SetAdd(s, x) == IF Contains(s, x) THEN s ELSE Append(s, x)

\* Set.delete / Array.splice(indexOf): drop the first occurrence.
RemoveFirst(s, x) ==
  IF ~Contains(s, x) THEN s
  ELSE LET i == CHOOSE j \in 1..Len(s) : s[j] = x /\ \A k \in 1..(j - 1) : s[k] # x
       IN  SubSeq(s, 1, i - 1) \o SubSeq(s, i + 1, Len(s))

RECURSIVE Filter(_, _)
Filter(s, keep) ==
  IF s = <<>> THEN <<>>
  ELSE IF Head(s) \in keep THEN <<Head(s)>> \o Filter(Tail(s), keep)
       ELSE Filter(Tail(s), keep)

RECURSIVE Flatten(_)
Flatten(ss) == IF ss = <<>> THEN <<>> ELSE Head(ss) \o Flatten(Tail(ss))

\* ------------------------------------------------------------ values
\* A log event.  k: "listener" (who = listener, n = count passed to it),
\* "broadcast" (who = target bus), "handler" (who = registration whose user
\* callback ran), "deliver" (who = pull-based registration that was handed the
\* payload), "error" (who = registration whose failure reached errorHandler),
\* "dispose" (who = registration whose dispose() went from live to disposed).
Ev(k, b, id, who, n) == [k |-> k, bus |-> b, msg |-> id, who |-> who, n |-> n]

\* What the user callback of registration r returns / throws for payload id.
Val(r, id) == <<"v", r, id>>

Err(r, id) == <<"e", r, id>>

DisposedError == <<"the message bus is disposed">>

DrainJob(b) == [type |-> "drain", bus |-> b]

VetoJob(b, task, chain, i, vetoed) ==
  [type |-> "veto", bus |-> b, task |-> task, chain |-> chain, i |-> i,
   vetoed |-> vetoed]

LazyJob(r, id) == [type |-> "lazy", reg |-> r, msg |-> id]

\* The finally reaction on the promise of single() that subscribeOnce(topic)
\* returns: it runs once the pull has its value.
FinallyJob(r) == [type |-> "finally", reg |-> r]

\* What a settled next() gave its caller: { done, value }, the value being the
\* message whose payload it is (0 with done).
IteratorResult(done, value) == [done |-> done, value |-> value]

NoReport == [st |-> "none", vals |-> <<>>, errs |-> <<>>, targets |-> <<>>]

\* ------------------------------------------------ SubscriptionRegistry
\* Variant of has: only active registrations count.
has_ActiveOnly(w, b, t) == \E i \in 1..Len(w.registry[b][t]) : w.regs[w.registry[b][t][i]].isActive

\* SubscriptionRegistry.has
has(w, b, t) == Len(w.registry[b][t]) > 0

\* Variant of getAll: the activeOnly flag is ignored.
getAll_Everything(w, b, t, activeOnly) == w.registry[b][t]

\* SubscriptionRegistry.getAll
getAll(w, b, t, activeOnly) ==
  IF activeOnly
  THEN Filter(w.registry[b][t], {r \in 1..Len(w.regs) : w.regs[r].isActive})
  ELSE w.registry[b][t]

\* add throws "duplicated registration" when the registration is already
\* listed under the topic; the caller decides what the throw interrupts.
addThrows(w, b, t, r) == Contains(w.registry[b][t], r)

add(w, b, t, r) == [w EXCEPT !.registry[b][t] = Append(@, r)]

\* remove throws "missing registration" when the registration is not listed
\* under the topic.
removeThrows(w, b, t, r) == ~Contains(w.registry[b][t], r)

remove(w, b, t, r) == [w EXCEPT !.registry[b][t] = RemoveFirst(@, r)]

clear(w, b) == [w EXCEPT !.registry[b] = [t \in Topics |-> <<>>]]

\* SubscriptionRegistry.registrations: every list of the map, flattened.  The
\* scenarios bind topics to the map in the order of TopicOrder.
TopicOrder == <<"T", "P", "U", "UP">>

registrations(w, b) == Flatten([i \in 1..Len(TopicOrder) |-> w.registry[b][TopicOrder[i]]])

\* ------------------------------------------------------- registrations
\* Variant of removeTopics: only the first topic is removed.
removeTopics_FirstOnly(w, b, ts, r) ==
  IF ts = <<>> THEN w
  ELSE IF removeThrows(w, b, Head(ts), r) THEN w
  ELSE remove(w, b, Head(ts), r)

\* The loop of dispose over the topics of the registration: a remove that
\* throws ends it.
RECURSIVE removeTopics(_, _, _, _)
removeTopics(w, b, ts, r) ==
  IF ts = <<>> THEN w
  ELSE IF removeThrows(w, b, Head(ts), r) THEN w
  ELSE removeTopics(remove(w, b, Head(ts), r), b, Tail(ts), r)

RECURSIVE removeTopicsThrows(_, _, _, _)
removeTopicsThrows(w, b, ts, r) ==
  IF ts = <<>> THEN FALSE
  ELSE IF removeThrows(w, b, Head(ts), r) THEN TRUE
  ELSE removeTopicsThrows(remove(w, b, Head(ts), r), b, Tail(ts), r)

\* Whether dispose() of registration r throws: it is not disposed yet and one
\* of its topics no longer lists it.
Registration_disposeThrows(w, r) ==
  ~w.regs[r].isDisposed /\ removeTopicsThrows(w, w.regs[r].bus, w.regs[r].topics, r)

\* HandlerRegistration.dispose and LazyAsyncRegistration.dispose
Registration_dispose(w, r) ==
  IF w.regs[r].isDisposed THEN w
  ELSE removeTopics([w EXCEPT !.regs[r].isDisposed = TRUE,
                              !.regs[r].isActive = FALSE,
                              !.log = Append(@, Ev("dispose", w.regs[r].bus, 0, r, 0))],
                    w.regs[r].bus, w.regs[r].topics, r)

\* ------------------------------------------------------------ enqueue
\* Variant of checkDisposed: the check never throws.
checkDisposed_Never(w, b) == FALSE

\* MessageBusImpl.checkDisposed: TRUE when it throws 'the message bus is
\* disposed'.
checkDisposed(w, b) == w.disposed[b]

RECURSIVE dispatchMessage(_, _, _, _)

\* Variant of enqueueMessage: the message is dispatched at the call instead of
\* being queued.
enqueueMessage_DispatchAtOnce(w, b, task) == dispatchMessage(w, b, task, w.interceptors[b])

\* MessageBusImpl.enqueueMessage after its checkDisposed has passed.
enqueueMessage(w, b, task) ==
  LET w1 == [w EXCEPT !.queue[b] = Append(@, task)]
  IN  IF w1.publishing[b] THEN w1
      ELSE [w1 EXCEPT !.publishing[b] = TRUE, !.micro = Append(@, DrainJob(b))]

\* MessageBusImpl.publish / publishAsync on a bus that is not disposed.  cause
\* is the message whose dispatch the calling callback belongs to (0: none).
publishOn(w, b, t, awaitable, cause) ==
  LET id == Len(w.msgs) + 1
      w1 == [w EXCEPT !.msgs = Append(@, [topic |-> t, bus |-> b, awaitable |-> awaitable,
                                          cause |-> cause]),
                      !.rep = Append(@, [x \in Bus |-> IF awaitable /\ x = b
                                                         THEN [NoReport EXCEPT !.st = "queued"]
                                                         ELSE NoReport])]
  IN  enqueueMessage(w1, b, [id |-> id, broadcast |-> TRUE, listeners |-> TRUE])

\* A publish made by a user callback running on bus b for message id, to the
\* topic of that message: the callback publishes while the message budget lasts.
\* Returns the new state and whether publish threw (bus disposed).
CallbackPublish(w, b, id) ==
  IF Len(w.msgs) >= w.lim.msgs THEN [w |-> w, threw |-> FALSE]
  ELSE IF checkDisposed(w, b) THEN [w |-> w, threw |-> TRUE]
  ELSE [w |-> publishOn(w, b, w.msgs[id].topic, FALSE, id), threw |-> FALSE]

\* The user callback given to subscribe(topic, handler), called as
\* myHandler(data, ...other).
myHandler(w, r, id, other) ==
  LET rec == w.regs[r]
      w1 == [w EXCEPT !.log = Append(@, Ev("handler", rec.bus, id, r, 0))]
  IN  CASE rec.hb = "val" -> [w |-> w1, ok |-> TRUE, v |-> Val(r, id)]
        [] rec.hb = "echo" -> [w |-> w1, ok |-> TRUE, v |-> [data |-> id, other |-> other]]
        [] rec.hb = "err" -> [w |-> w1, ok |-> FALSE, v |-> Err(r, id)]
        [] rec.hb = "pub" ->
             LET p == CallbackPublish(w1, rec.bus, id)
             IN  IF p.threw THEN [w |-> p.w, ok |-> FALSE, v |-> DisposedError]
                 ELSE [w |-> p.w, ok |-> TRUE, v |-> Val(r, id)]
        [] rec.hb = "disp" ->
             [w |-> IF r + 1 <= Len(w1.regs) THEN Registration_dispose(w1, r + 1) ELSE w1,
              ok |-> TRUE, v |-> Val(r, id)]

\* Variant of HandlerRegistration.handler: the remaining count is left alone.
HandlerRegistration_handler_Uncounted(w, r, id, other) ==
  IF w.regs[r].remaining = 0
  THEN [w |-> Registration_dispose(w, r), ok |-> TRUE, v |-> Undefined]
  ELSE myHandler(w, r, id, other)

\* HandlerRegistration.handler
HandlerRegistration_handler(w, r, id, other) ==
  IF w.regs[r].remaining = 0
  THEN [w |-> Registration_dispose(w, r), ok |-> TRUE, v |-> Undefined]
  ELSE LET w1 == IF w.regs[r].remaining > 0
                 THEN [w EXCEPT !.regs[r].remaining = @ - 1]
                 ELSE w
       IN  myHandler(w1, r, id, other)

\* LazyAsyncRegistration.handler
LazyAsyncRegistration_handler(w, r, id) ==
  IF w.regs[r].remaining = 0 THEN Registration_dispose(w, r)
  ELSE LET w1 == IF w.regs[r].remaining > 0
                 THEN [w EXCEPT !.regs[r].remaining = @ - 1]
                 ELSE w
           w2 == [w1 EXCEPT !.log = Append(@, Ev("deliver", w.regs[r].bus, id, r, 0))]
       IN  IF w2.regs[r].promiseQueue > 0
           THEN [w2 EXCEPT !.regs[r].promiseQueue = @ - 1,
                           !.regs[r].pulled = Append(@, IteratorResult(FALSE, id)),
                           !.micro = IF w2.regs[r].hb = "single"
                                     THEN Append(@, FinallyJob(r))
                                     ELSE @]
           ELSE [w2 EXCEPT !.regs[r].dataQueue = Append(@, id)]

\* ------------------------------------------------------------ dispatch
\* Variant of InsertByPriority: an element goes before the elements of equal
\* priority.
InsertByPriority_TiesFirst(w, sorted, r) ==
  LET before == {j \in 1..Len(sorted) : w.regs[sorted[j]].priority < w.regs[r].priority}
      k == Cardinality(before)
  IN  SubSeq(sorted, 1, k) \o <<r>> \o SubSeq(sorted, k + 1, Len(sorted))

\* Array.prototype.sort((a, b) => a.priority - b.priority), which is stable:
\* an element goes after every element whose priority is not greater.
InsertByPriority(w, sorted, r) ==
  LET before == {j \in 1..Len(sorted) : w.regs[sorted[j]].priority <= w.regs[r].priority}
      k == Cardinality(before)
  IN  SubSeq(sorted, 1, k) \o <<r>> \o SubSeq(sorted, k + 1, Len(sorted))

RECURSIVE sortByPriority(_, _, _)
sortByPriority(w, s, acc) ==
  IF s = <<>> THEN acc
  ELSE sortByPriority(w, Tail(s), InsertByPriority(w, acc, Head(s)))

\* The listener callbacks, in the order of the listener set.
RECURSIVE notifyListeners(_, _, _, _, _)
notifyListeners(w, b, id, ls, count) ==
  IF ls = <<>> THEN w
  ELSE LET w1 == [w EXCEPT !.log = Append(@, Ev("listener", b, id, Head(ls), count))]
           w2 == IF Head(ls) = "LP"
                 THEN CallbackPublish(w1, b, id).w
                 ELSE w1
       IN  notifyListeners(w2, b, id, Tail(ls), count)

\* Variant of broadcastTo: the message enqueued on a target asks for the
\* target's listeners.
RECURSIVE broadcastTo_WithListeners(_, _, _, _, _)
broadcastTo_WithListeners(w, b, id, targets, recursive) ==
  IF targets = <<>> THEN [w |-> w, threw |-> FALSE]
  ELSE LET c == Head(targets)
       IN  IF checkDisposed(w, c) THEN [w |-> w, threw |-> TRUE]
           ELSE LET w1 == enqueueMessage(w, c, [id |-> id, broadcast |-> recursive,
                                               listeners |-> TRUE])
                    w2 == [w1 EXCEPT !.log = Append(@, Ev("broadcast", b, id, c, 0)),
                                     !.rep[id][c] = IF w.msgs[id].awaitable
                                                    THEN [NoReport EXCEPT !.st = "queued"]
                                                    ELSE @]
                IN  broadcastTo_WithListeners(w2, b, id, Tail(targets), recursive)

\* The broadcast loop: target.enqueueMessage for every target; checkDisposed
\* of a disposed target throws out of dispatchMessage.
RECURSIVE broadcastTo(_, _, _, _, _)
broadcastTo(w, b, id, targets, recursive) ==
  IF targets = <<>> THEN [w |-> w, threw |-> FALSE]
  ELSE LET c == Head(targets)
       IN  IF checkDisposed(w, c) THEN [w |-> w, threw |-> TRUE]
           ELSE LET w1 == enqueueMessage(w, c, [id |-> id, broadcast |-> recursive,
                                               listeners |-> FALSE])
                    w2 == [w1 EXCEPT !.log = Append(@, Ev("broadcast", b, id, c, 0)),
                                     !.rep[id][c] = IF w.msgs[id].awaitable
                                                    THEN [NoReport EXCEPT !.st = "queued"]
                                                    ELSE @]
                IN  broadcastTo(w2, b, id, Tail(targets), recursive)

\* Variant of the composed handler: the interceptor added first is the
\* outermost.
RECURSIVE Interceptor_handler_OldestOutermost(_, _, _, _, _, _)
Interceptor_handler_OldestOutermost(w, chain, i, r, id, other) ==
  IF i = 0 THEN HandlerRegistration_handler(w, r, id, other)
  ELSE LET k == chain[Len(chain) + 1 - i]
       IN  IF k \in Taggers
           THEN LET res == Interceptor_handler_OldestOutermost(w, chain, i - 1, r, id,
                                                               <<k>> \o other)
                IN  IF res.ok THEN [res EXCEPT !.v = [result |-> res.v, by |-> k]]
                    ELSE res
           ELSE Interceptor_handler_OldestOutermost(w, chain, i - 1, r, id, other)

\* The handler composed by createInterceptor, entered at interceptor i of the
\* chain with the arguments (data, ...other): interceptor i runs with a next
\* that enters interceptor i - 1; below the first interceptor the innermost
\* call runs the handler of the registration.
RECURSIVE Interceptor_handler(_, _, _, _, _, _)
Interceptor_handler(w, chain, i, r, id, other) ==
  IF i = 0 THEN HandlerRegistration_handler(w, r, id, other)
  ELSE IF chain[i] \in Taggers
       THEN LET res == Interceptor_handler(w, chain, i - 1, r, id, <<chain[i]>> \o other)
            IN  IF res.ok THEN [res EXCEPT !.v = [result |-> res.v, by |-> chain[i]]]
                ELSE res
       ELSE Interceptor_handler(w, chain, i - 1, r, id, other)

\* registrations.map(...): a callback registration's handler is called through
\* the interceptor handler, from its outermost interceptor (the last of the
\* chain) in; a pull-based registration's handler is called from a
\* then-reaction, one microtask later, with the message.
RECURSIVE invokeAll(_, _, _, _, _)
invokeAll(w, rs, id, outs, chain) ==
  IF rs = <<>> THEN [w |-> w, outs |-> outs]
  ELSE LET r == Head(rs)
       IN  IF w.regs[r].kind = "lazy"
           THEN invokeAll([w EXCEPT !.micro = Append(@, LazyJob(r, id))], Tail(rs), id,
                          Append(outs, [reg |-> r, ok |-> TRUE, v |-> Undefined]), chain)
           ELSE LET h == Interceptor_handler(w, chain, Len(chain), r, id, <<>>)
                IN  invokeAll(h.w, Tail(rs), id,
                              Append(outs, [reg |-> r, ok |-> h.ok, v |-> h.v]), chain)

\* Variant of handleErrors: the error callback is called for the first failure
\* only.
handleErrors_FirstOnly(w, b, id, outs) ==
  LET failed == {i \in 1..Len(outs) : ~outs[i].ok}
  IN  IF failed = {} THEN w
      ELSE LET i == CHOOSE x \in failed : \A y \in failed : x <= y
           IN  [w EXCEPT !.log = Append(@, Ev("error", b, id, outs[i].reg, 0))]

\* The catch of a fire-and-forget publish: handleError(e) for each failure.
RECURSIVE handleErrors(_, _, _, _)
handleErrors(w, b, id, outs) ==
  IF outs = <<>> THEN w
  ELSE handleErrors(IF Head(outs).ok THEN w
                    ELSE [w EXCEPT !.log = Append(@, Ev("error", b, id, Head(outs).reg, 0))],
                    b, id, Tail(outs))

RECURSIVE SelectOuts(_, _)
SelectOuts(outs, ok) ==
  IF outs = <<>> THEN <<>>
  ELSE IF Head(outs).ok = ok THEN <<Head(outs).v>> \o SelectOuts(Tail(outs), ok)
       ELSE SelectOuts(Tail(outs), ok)

\* Variants of forwards: a broadcast target never, or always, broadcasts on.
forwards_Never(t) == FALSE

forwards_Always(t) == TRUE

\* The broadcast flag of the message enqueued on a broadcast target: true on
\* the way to the children, absent on the way to the parent.
forwards(t) == broadcastDirection(t) = "children"

\* Variant of rethrows: a broadcast target takes the message as fire-and-forget.
rethrows_PublishingBusOnly(w, b, id) == w.msgs[id].awaitable /\ b = w.msgs[id].bus

\* The catch on a handler's promise: the error is thrown on to the caller of
\* an awaited publish and goes to handleError otherwise.
rethrows(w, b, id) == w.msgs[id].awaitable

\* MessageBusImpl.dispatchMessage
dispatchMessage(w, b, task, interceptor) ==
  LET id == task.id
      t == w.msgs[id].topic
      awaitable == w.msgs[id].awaitable
      sorted == sortByPriority(w, getAll(w, b, t, TRUE), <<>>)
      w1 == IF task.listeners
            THEN notifyListeners(w, b, id, w.listeners[b], Len(sorted))
            ELSE w
      targets == IF ~task.broadcast THEN <<>>
                 ELSE IF broadcastDirection(t) = "children" THEN w1.children[b]
                 ELSE IF w1.parent[b] # NoBus THEN <<w1.parent[b]>>
                 ELSE <<>>
      bc == broadcastTo(w1, b, id, targets, forwards(t))
      inv == invokeAll(bc.w, sorted, id, <<>>, interceptor)
  IN  IF bc.threw
      THEN IF awaitable
           THEN [bc.w EXCEPT !.rep[id][b] = [st |-> "failed", vals |-> <<>>,
                                            errs |-> <<DisposedError>>,
                                            targets |-> <<>>]]
           ELSE bc.w
      ELSE LET w2 == IF awaitable
                     THEN [inv.w EXCEPT !.rep[id][b] = [st |-> "done",
                                                       vals |-> SelectOuts(inv.outs, TRUE),
                                                       errs |-> SelectOuts(inv.outs, FALSE),
                                                       targets |-> targets]]
                     ELSE inv.w
           IN  IF rethrows(w2, b, id) THEN w2 ELSE handleErrors(w2, b, id, inv.outs)

\* ------------------------------------------------------------ veto check
\* MessageBusImpl.createInterceptor: the chain is built from a snapshot of the
\* interceptor set.
createInterceptor(w, b) == w.interceptors[b]

\* The composed isVetoed about to consult interceptor i of the chain (the loop
\* runs from the last added to the first).  i = 0: the loop is over and the
\* async function returns false.  Each await gives up the turn: a pending
\* promise ("slow") parks the check, anything else resumes it one job later.
\* Variant: an isVetoed that throws counts as one that returned false.
consult_ThrowsPass(w, b, task, chain, i) ==
  IF i = 0 THEN [w EXCEPT !.micro = Append(@, VetoJob(b, task, chain, 0, FALSE))]
  ELSE IF chain[i] = "slow"
       THEN [w EXCEPT !.waiting = @ \cup {VetoJob(b, task, chain, i, FALSE)}]
       ELSE [w EXCEPT !.micro = Append(@, VetoJob(b, task, chain, i, FALSE))]

consult(w, b, task, chain, i) ==
  IF i = 0 THEN [w EXCEPT !.micro = Append(@, VetoJob(b, task, chain, 0, FALSE))]
  ELSE IF chain[i] = "slow"
       THEN [w EXCEPT !.waiting = @ \cup {VetoJob(b, task, chain, i, FALSE)}]
  ELSE IF chain[i] = "throws"
       THEN [w EXCEPT !.micro = Append(@, VetoJob(b, task, chain, 0 - 2, FALSE))]
  ELSE IF chain[i] = "asks"
       THEN LET p == CallbackPublish(w, b, task.id)
            IN  [p.w EXCEPT !.micro = Append(@, VetoJob(b, task, chain,
                                                        IF p.threw THEN 0 - 2 ELSE i, FALSE))]
       ELSE [w EXCEPT !.micro = Append(@, VetoJob(b, task, chain, i, FALSE))]

\* Variant of publishMessage: the veto check starts at the interceptor added
\* first.
publishMessage_OldestFirst(w, b, task) ==
  LET chain == IF w.composed[b] = NoChain THEN createInterceptor(w, b) ELSE w.composed[b]
  IN  consult([w EXCEPT !.composed[b] = chain], b, task, chain, IF chain = <<>> THEN 0 ELSE 1)

\* MessageBusImpl.publishMessage, up to the first await of the veto check.
publishMessage(w, b, task) ==
  LET chain == IF w.composed[b] = NoChain THEN createInterceptor(w, b) ELSE w.composed[b]
  IN  consult([w EXCEPT !.composed[b] = chain], b, task, chain, Len(chain))

\* Variant of runVeto: the verdict of the veto check is not looked at.
runVeto_VerdictIgnored(w, j) ==
  IF j.i >= 1
  THEN IF j.chain[j.i] = "veto"
       THEN [w EXCEPT !.micro = Append(@, VetoJob(j.bus, j.task, j.chain, 0, TRUE))]
       ELSE consult(w, j.bus, j.task, j.chain, j.i - 1)
  ELSE IF j.i = 0
  THEN [w EXCEPT !.micro = Append(@, VetoJob(j.bus, j.task, j.chain, 0 - 1, j.vetoed))]
  ELSE dispatchMessage(IF j.vetoed
                       THEN [w EXCEPT !.log = Append(@, Ev("vetoed", j.bus, j.task.id, 0, 0))]
                       ELSE w,
                       j.bus, j.task, j.chain)

\* A job of the veto check.  i >= 1: the await on interceptor i has its value;
\* i = 0: the catch reaction of publishMessage; i = -1: its then reaction,
\* which ends the message if vetoed and dispatches it otherwise; i = -2: the
\* catch reaction when the check was rejected, which throws the error on to the
\* caller of an awaited publish and hands it to handleError otherwise, the
\* message ending there undispatched.
runVeto(w, j) ==
  IF j.i >= 1
  THEN IF j.chain[j.i] = "veto"
       THEN [w EXCEPT !.micro = Append(@, VetoJob(j.bus, j.task, j.chain, 0, TRUE))]
       ELSE consult(w, j.bus, j.task, j.chain, j.i - 1)
  ELSE IF j.i = 0
  THEN [w EXCEPT !.micro = Append(@, VetoJob(j.bus, j.task, j.chain, 0 - 1, j.vetoed))]
  ELSE IF j.i = 0 - 2
  THEN IF w.msgs[j.task.id].awaitable
       THEN [w EXCEPT !.rep[j.task.id][j.bus] = [st |-> "failed", vals |-> <<>>,
                                                 errs |-> <<VetoError>>,
                                                 targets |-> <<>>]]
       ELSE [w EXCEPT !.log = Append(@, Ev("error", j.bus, j.task.id, 0, 0))]
  ELSE IF j.vetoed
  THEN LET w1 == [w EXCEPT !.log = Append(@, Ev("vetoed", j.bus, j.task.id, 0, 0))]
       IN  IF w.msgs[j.task.id].awaitable
           THEN [w1 EXCEPT !.rep[j.task.id][j.bus] = [NoReport EXCEPT !.st = "vetoed"]]
           ELSE w1
  ELSE dispatchMessage(w, j.bus, j.task, j.chain)

\* MessageBusImpl.drainPublishQueue
RECURSIVE drainLoop(_, _)
\* Variant: the drain turn takes one task and stops.
drainLoop_FirstOnly(w, b) ==
  IF w.queue[b] = <<>> THEN w
  ELSE publishMessage([w EXCEPT !.queue[b] = Tail(@)], b, Head(w.queue[b]))

drainLoop(w, b) ==
  IF w.queue[b] = <<>> THEN w
  ELSE drainLoop(publishMessage([w EXCEPT !.queue[b] = Tail(@)], b, Head(w.queue[b])), b)

drainPublishQueue(w, b) ==
  LET w1 == IF ~w.disposed[b] THEN drainLoop(w, b) ELSE w
  IN  [w1 EXCEPT !.publishing[b] = FALSE]

\* ------------------------------------------------------ publishAsync
\* The MessageResult a bus's task resolves to: its own values and errors, then
\* those of each broadcast target (Promise.all over [result, ...broadcastResults],
\* flatMap).  st: "pending" while some task of the message is not yet settled,
\* "failed" when a task rejected (Promise.all rejects with that reason).
\* Variant of flatMap: the results of the broadcast targets come first.
flatMap_TargetsFirst(local, subs) == Flatten(subs) \o local

\* results.flatMap(...) over [result, ...broadcastResults]
flatMap(local, subs) == local \o Flatten(subs)

RECURSIVE messageResult(_, _, _)
messageResult(w, id, b) ==
  LET r == w.rep[id][b]
  IN  CASE r.st = "queued" -> [st |-> "pending", vals |-> <<>>, errs |-> <<>>, vetoed |-> FALSE]
        [] r.st = "vetoed" -> [st |-> "ok", vals |-> <<>>, errs |-> <<>>, vetoed |-> TRUE]
        [] r.st = "failed" -> [st |-> "failed", vals |-> <<>>, errs |-> r.errs, vetoed |-> FALSE]
        [] r.st = "done" ->
             LET subs == [i \in 1..Len(r.targets) |-> messageResult(w, id, r.targets[i])]
                 idx == 1..Len(subs)
             IN  IF \E i \in idx : subs[i].st = "failed"
                 THEN LET f == CHOOSE i \in idx : subs[i].st = "failed"
                                   /\ \A k \in 1..(i - 1) : subs[k].st # "failed"
                      IN  [st |-> "failed", vals |-> <<>>, errs |-> subs[f].errs, vetoed |-> FALSE]
                 ELSE IF \E i \in idx : subs[i].st = "pending"
                 THEN [st |-> "pending", vals |-> <<>>, errs |-> <<>>, vetoed |-> FALSE]
                 ELSE [st |-> "ok",
                       vals |-> flatMap(r.vals, [i \in idx |-> subs[i].vals]),
                       errs |-> flatMap(r.errs, [i \in idx |-> subs[i].errs]),
                       vetoed |-> FALSE]
        [] OTHER -> [st |-> "pending", vals |-> <<>>, errs |-> <<>>, vetoed |-> FALSE]

\* Variant of publishAsync: the values are looked at before the errors.
publishAsync_ValuesFirst(w, id) ==
  LET res == messageResult(w, id, w.msgs[id].bus)
  IN  IF res.st = "pending" THEN [kind |-> "pending", v |-> <<>>]
      ELSE IF res.st = "failed" THEN [kind |-> "rejected", v |-> res.errs[1]]
      ELSE IF Len(res.vals) > 0 THEN [kind |-> "resolved", v |-> res.vals]
      ELSE IF Len(res.errs) > 1 THEN [kind |-> "rejected", v |-> <<"AggregateError", res.errs>>]
      ELSE IF Len(res.errs) = 1 THEN [kind |-> "rejected", v |-> res.errs[1]]
      ELSE [kind |-> "rejected", v |-> <<"no subscribers">>]

\* Variant of publishAsync: the result is the list of values for every topic.
publishAsync_AlwaysList(w, id) ==
  LET res == messageResult(w, id, w.msgs[id].bus)
  IN  IF res.st = "pending" THEN [kind |-> "pending", v |-> <<>>]
      ELSE IF res.st = "failed" THEN [kind |-> "rejected", v |-> res.errs[1]]
      ELSE IF Len(res.errs) > 1 THEN [kind |-> "rejected", v |-> <<"AggregateError", res.errs>>]
      ELSE IF Len(res.errs) = 1 THEN [kind |-> "rejected", v |-> res.errs[1]]
      ELSE IF Len(res.vals) = 0 THEN [kind |-> "rejected", v |-> <<"no subscribers">>]
      ELSE [kind |-> "resolved", v |-> res.vals]

\* The then-callback of MessageBusImpl.publishAsync: what the returned promise
\* settles to.  check(vetoed !== false, ...) passes for vetoed = true and for
\* vetoed = undefined, so a vetoed message falls through to the next check.
publishAsync(w, id) ==
  LET res == messageResult(w, id, w.msgs[id].bus)
      t == w.msgs[id].topic
  IN  IF res.st = "pending" THEN [kind |-> "pending", v |-> <<>>]
      ELSE IF res.st = "failed" THEN [kind |-> "rejected", v |-> res.errs[1]]
      ELSE IF Len(res.errs) > 1 THEN [kind |-> "rejected", v |-> <<"AggregateError", res.errs>>]
      ELSE IF Len(res.errs) = 1 THEN [kind |-> "rejected", v |-> res.errs[1]]
      ELSE IF Len(res.vals) = 0 THEN [kind |-> "rejected", v |-> <<"no subscribers">>]
      ELSE IF mode(t) = "multicast" THEN [kind |-> "resolved", v |-> res.vals]
      ELSE IF Len(res.vals) # 1 THEN [kind |-> "rejected", v |-> <<"multiple result values">>]
      ELSE [kind |-> "resolved", v |-> res.vals[1]]

\* ------------------------------------------------------------ subscribe
RECURSIVE getRootBus(_, _)
getRootBus(w, b) == IF w.parent[b] = NoBus THEN b ELSE getRootBus(w, w.parent[b])

\* Variant of hasSubscription: only the registry of the bus itself is looked at.
hasSubscription_OwnBus(w, b, t) == has(w, b, t)

\* MessageBusImpl.hasSubscription: a scan of the tree from the root, with a
\* stack (pop the last, push the children).
RECURSIVE scanTree(_, _, _)
scanTree(w, stack, t) ==
  IF stack = <<>> THEN FALSE
  ELSE LET bus == stack[Len(stack)]
       IN  IF has(w, bus, t) THEN TRUE
           ELSE scanTree(w, SubSeq(stack, 1, Len(stack) - 1) \o w.children[bus], t)

hasSubscription(w, b, t) == scanTree(w, <<getRootBus(w, b)>>, t)

\* The checks of subscribeImpl: whether the call throws before it creates
\* the registration.
subscribeThrows(w, b, topics) ==
  \/ checkDisposed(w, b)
  \/ Len(topics) = 0
  \/ \E i \in 1..Len(topics) : mode(topics[i]) # "multicast" /\ hasSubscription(w, b, topics[i])

\* The constructor loop of a registration: registry.add per topic; a topic
\* listed twice makes the second add throw, after the first took effect.
RECURSIVE addTopics(_, _, _, _)
addTopics(w, b, ts, r) ==
  IF ts = <<>> THEN w
  ELSE IF addThrows(w, b, Head(ts), r) THEN w
  ELSE addTopics(add(w, b, Head(ts), r), b, Tail(ts), r)

\* Variant of newRegistration: a pull-based registration is not listed in
\* the registry by its constructor.
newRegistration_LazyUnlisted(w, b, topics, kind, hb, limit, priority) ==
  LET r == Len(w.regs) + 1
      rec == [kind |-> kind, bus |-> b, topics |-> topics,
              isActive |-> (kind = "handler"), isDisposed |-> FALSE,
              remaining |-> limit, priority |-> priority, hb |-> hb,
              born |-> Len(w.msgs),
              dataQueue |-> <<>>, promiseQueue |-> 0, pulled |-> <<>>]
      w1 == [w EXCEPT !.regs = Append(@, rec)]
  IN  IF kind = "lazy" THEN w1 ELSE addTopics(w1, b, topics, r)

\* new HandlerRegistration(...) (hb = the user callback) or
\* new LazyAsyncRegistration(...) (kind = "lazy").
newRegistration(w, b, topics, kind, hb, limit, priority) ==
  LET r == Len(w.regs) + 1
      rec == [kind |-> kind, bus |-> b, topics |-> topics,
              isActive |-> (kind = "handler"), isDisposed |-> FALSE,
              remaining |-> limit, priority |-> priority, hb |-> hb,
              born |-> Len(w.msgs),
              dataQueue |-> <<>>, promiseQueue |-> 0, pulled |-> <<>>]
  IN  addTopics([w EXCEPT !.regs = Append(@, rec)], b, topics, r)

\* MessageBusImpl.subscribeImpl
subscribeImpl(w, b, topics, kind, hb, limit, priority) ==
  IF subscribeThrows(w, b, topics) THEN w
  ELSE newRegistration(w, b, topics, kind, hb, limit, priority)

\* MessageBusImpl.withLimit and withPriority after their checks: the builder
\* they construct, as its two fields.
withLimit(limit) == [myLimit |-> limit, myPriority |-> defaultPriority]

withPriority(priority) == [myLimit |-> defaultLimit, myPriority |-> priority]

\* SubscriptionBuilderImpl.withLimit and withPriority, which change the builder.
Builder_withLimit(bd, limit) == [bd EXCEPT !.myLimit = limit]

Builder_withPriority(bd, priority) == [bd EXCEPT !.myPriority = priority]

\* SubscriptionBuilderImpl.subscribe
Builder_subscribe(w, b, bd, topics, kind, hb) ==
  subscribeImpl(w, b, topics, kind, hb, bd.myLimit, bd.myPriority)

\* ------------------------------------------------------------ bus tree
\* Variant of createChildBus: the options are ignored and nothing is copied.
createChildBus_Bare(w, b, c, copyListeners, copyInterceptors) ==
  [w EXCEPT !.exists = @ \cup {c},
            !.parent[c] = b,
            !.listeners[c] = <<>>,
            !.interceptors[c] = <<>>,
            !.children[b] = SetAdd(@, c)]

\* MessageBusImpl.createChildBus: the new bus object is c.
createChildBus(w, b, c, copyListeners, copyInterceptors) ==
  [w EXCEPT !.exists = @ \cup {c},
            !.parent[c] = b,
            !.listeners[c] = IF copyListeners THEN w.listeners[b] ELSE <<>>,
            !.interceptors[c] = IF copyInterceptors THEN w.interceptors[b] ELSE <<>>,
            !.children[b] = SetAdd(@, c)]

\* The loop of MessageBusImpl.dispose over the registrations: a dispose that
\* throws ends it, and the call.
RECURSIVE disposeRegs(_, _)
disposeRegs(w, rs) ==
  IF rs = <<>> THEN [w |-> w, threw |-> FALSE]
  ELSE IF Registration_disposeThrows(w, Head(rs))
       THEN [w |-> Registration_dispose(w, Head(rs)), threw |-> TRUE]
       ELSE disposeRegs(Registration_dispose(w, Head(rs)), Tail(rs))

\* MessageBusImpl.dispose: the state it leaves and whether it threw.
RECURSIVE Bus_disposeCall(_, _)
RECURSIVE disposeChildren(_, _)
disposeChildren(w, cs) ==
  IF cs = <<>> THEN [w |-> w, threw |-> FALSE]
  ELSE LET d == Bus_disposeCall(w, Head(cs))
       IN  IF d.threw THEN d ELSE disposeChildren(d.w, Tail(cs))

Bus_disposeCall(w, b) ==
  IF w.disposed[b] THEN [w |-> w, threw |-> FALSE]
  ELSE LET w1 == [w EXCEPT !.disposed[b] = TRUE]
           w2 == IF w1.parent[b] # NoBus
                 THEN [w1 EXCEPT !.children[w1.parent[b]] = RemoveFirst(@, b)]
                 ELSE w1
           w3 == [w2 EXCEPT !.listeners[b] = <<>>, !.interceptors[b] = <<>>,
                            !.composed[b] = NoChain]
           rs == disposeRegs(w3, registrations(w3, b))
           w4 == clear(rs.w, b)
           cs == disposeChildren(w4, w4.children[b])
       IN  IF rs.threw THEN rs
           ELSE IF cs.threw THEN cs
           ELSE [w |-> [cs.w EXCEPT !.children[b] = <<>>], threw |-> FALSE]

Bus_dispose(w, b) == Bus_disposeCall(w, b).w

\* ---------------------------------------------------- pull-based consumer
\* Variant of next: the newest backlog item is returned first.
next_NewestFirst(w, r) ==
  IF Len(w.regs[r].dataQueue) > 0
  THEN [w EXCEPT !.regs[r].dataQueue = SubSeq(@, 1, Len(@) - 1),
                 !.regs[r].pulled = Append(@, IteratorResult(FALSE,
                                     w.regs[r].dataQueue[Len(w.regs[r].dataQueue)]))]
  ELSE IF w.regs[r].isDisposed
  THEN [w EXCEPT !.regs[r].pulled = Append(@, IteratorResult(TRUE, 0))]
  ELSE [w EXCEPT !.regs[r].isActive = TRUE, !.regs[r].promiseQueue = @ + 1]

\* LazyAsyncRegistration.next (single() awaits it): a backlog item is returned
\* first; on a disposed registration the pull reports done; otherwise the
\* registration becomes active and the pull waits.
next(w, r) ==
  IF Len(w.regs[r].dataQueue) > 0
  THEN [w EXCEPT !.regs[r].dataQueue = Tail(@),
                 !.regs[r].pulled = Append(@, IteratorResult(FALSE, Head(w.regs[r].dataQueue)))]
  ELSE IF w.regs[r].isDisposed
  THEN [w EXCEPT !.regs[r].pulled = Append(@, IteratorResult(TRUE, 0))]
  ELSE [w EXCEPT !.regs[r].isActive = TRUE, !.regs[r].promiseQueue = @ + 1]

\* SubscriptionBuilderImpl.subscribeOnce: whether it throws, and the state it
\* leaves.  Without a handler it returns subscription.single(), which calls
\* next(), with a finally reaction that disposes the subscription.
Builder_subscribeOnceThrows(w, b, bd, topics) ==
  bd.myLimit # 1 \/ subscribeThrows(w, b, topics)

Builder_subscribeOnce(w, b, bd, topics, kind, hb) ==
  IF bd.myLimit # 1 THEN w
  ELSE LET w1 == subscribeImpl(w, b, topics, kind, IF kind = "lazy" THEN "single" ELSE hb,
                               1, defaultPriority)
       IN  IF kind = "lazy" /\ Len(w1.regs) > Len(w.regs) THEN next(w1, Len(w1.regs)) ELSE w1

\* ------------------------------------------------------------------ Init
\* createMessageBus(): one root bus, nothing registered, nothing queued.
Limits(nbus, nmsgs, nregs) == [bus |-> nbus, msgs |-> nmsgs, regs |-> nregs]

InitBus ==
  /\ exists = {1}
  /\ parent = [b \in Bus |-> NoBus]
  /\ children = [b \in Bus |-> <<>>]
  /\ disposed = [b \in Bus |-> FALSE]
  /\ publishing = [b \in Bus |-> FALSE]
  /\ queue = [b \in Bus |-> <<>>]
  /\ listeners = [b \in Bus |-> <<>>]
  /\ interceptors = [b \in Bus |-> <<>>]
  /\ composed = [b \in Bus |-> NoChain]
  /\ registry = [b \in Bus |-> [t \in Topics |-> <<>>]]
  /\ regs = <<>>
  /\ micro = <<>>
  /\ waiting = {}
  /\ msgs = <<>>
  /\ rep = <<>>
  /\ log = <<>>

\* --------------------------------------------------------------- actions
\* Calls made by user code.  A call that throws before it has changed anything
\* is not a step.
Publish(b, t) ==
  /\ b \in exists /\ ~checkDisposed(Cur, b)
  /\ Len(msgs) < lim.msgs
  /\ Commit(publishOn(Cur, b, t, FALSE, 0))

PublishAsync(b, t) ==
  /\ b \in exists /\ ~checkDisposed(Cur, b)
  /\ Len(msgs) < lim.msgs
  /\ Commit(publishOn(Cur, b, t, TRUE, 0))

\* bus.withPriority(priority).subscribe(topics, handler); bus.subscribe is the
\* case priority = defaultPriority.
Subscribe(b, topics, hb, priority) ==
  /\ b \in exists
  /\ Len(regs) < lim.regs
  /\ ~subscribeThrows(Cur, b, topics)
  /\ Commit(subscribeImpl(Cur, b, topics, "handler", hb, defaultLimit, priority))

\* bus.subscribeOnce(topics, handler)
SubscribeOnce(b, topics, hb) ==
  /\ b \in exists
  /\ Len(regs) < lim.regs
  /\ ~subscribeThrows(Cur, b, topics)
  /\ Commit(subscribeImpl(Cur, b, topics, "handler", hb, 1, defaultPriority))

\* bus.withPriority(priority).subscribe(topics) without a handler.
SubscribeLazy(b, topics, priority) ==
  /\ b \in exists
  /\ Len(regs) < lim.regs
  /\ ~subscribeThrows(Cur, b, topics)
  /\ Commit(subscribeImpl(Cur, b, topics, "lazy", "none", defaultLimit, priority))

\* subscription.next() on a pull-based subscription with no pull waiting.
Pull(r) ==
  /\ r \in 1..Len(regs)
  /\ regs[r].kind = "lazy"
  /\ regs[r].promiseQueue = 0
  /\ ~regs[r].isDisposed
  /\ Commit(next(Cur, r))

\* bus.withLimit(limit).subscribe(topics, handler), or without a handler
\* (kind = "lazy").
SubscribeWithLimit(b, topics, kind, hb, limit) ==
  /\ b \in exists /\ ~checkDisposed(Cur, b)
  /\ limit > 0
  /\ Len(regs) < lim.regs
  /\ ~subscribeThrows(Cur, b, topics)
  /\ Commit(Builder_subscribe(Cur, b, withLimit(limit), topics, kind, hb))

\* builder.subscribe(topics, handler) and builder.subscribeOnce(topics, handler)
\* on a builder bd that bus b returned, or without a handler (kind = "lazy").
BuilderSubscribe(b, bd, topics, kind, hb) ==
  /\ b \in exists /\ ~checkDisposed(Cur, b)
  /\ Len(regs) < lim.regs
  /\ ~subscribeThrows(Cur, b, topics)
  /\ Commit(Builder_subscribe(Cur, b, bd, topics, kind, hb))

BuilderSubscribeOnce(b, bd, topics, kind, hb) ==
  /\ b \in exists /\ ~checkDisposed(Cur, b)
  /\ Len(regs) < lim.regs
  /\ ~Builder_subscribeOnceThrows(Cur, b, bd, topics)
  /\ Commit(Builder_subscribeOnce(Cur, b, bd, topics, kind, hb))

\* subscription.next(), whatever the state of the subscription, while fewer
\* than n calls have been made on it.
NextCall(r, n) ==
  /\ r \in 1..Len(regs)
  /\ regs[r].kind = "lazy"
  /\ regs[r].promiseQueue + Len(regs[r].pulled) < n
  /\ Commit(next(Cur, r))

\* subscription.dispose()
Dispose(r) ==
  /\ r \in 1..Len(regs)
  /\ ~regs[r].isDisposed
  /\ Commit(Registration_dispose(Cur, r))

\* Variant: the cached chain survives the addition.
AddInterceptor_StaleChain(b, k) ==
  /\ b \in exists /\ ~checkDisposed(Cur, b)
  /\ ~Contains(interceptors[b], k)
  /\ Commit([Cur EXCEPT !.interceptors[b] = SetAdd(@, k)])

AddInterceptor(b, k) ==
  /\ b \in exists /\ ~checkDisposed(Cur, b)
  /\ ~Contains(interceptors[b], k)
  /\ Commit([Cur EXCEPT !.interceptors[b] = SetAdd(@, k), !.composed[b] = NoChain])

RemoveInterceptor(b, k) ==
  /\ b \in exists /\ ~checkDisposed(Cur, b)
  /\ Contains(interceptors[b], k)
  /\ Commit([Cur EXCEPT !.interceptors[b] = RemoveFirst(@, k), !.composed[b] = NoChain])

AddListener(b, l) ==
  /\ b \in exists /\ ~checkDisposed(Cur, b)
  /\ ~Contains(listeners[b], l)
  /\ Commit([Cur EXCEPT !.listeners[b] = SetAdd(@, l)])

RemoveListener(b, l) ==
  /\ b \in exists /\ ~checkDisposed(Cur, b)
  /\ Contains(listeners[b], l)
  /\ Commit([Cur EXCEPT !.listeners[b] = RemoveFirst(@, l)])

\* bus.createChildBus(): the next unused bus object becomes a child of b.
CreateChildBus(b) ==
  /\ b \in exists /\ ~checkDisposed(Cur, b)
  /\ Cardinality(exists) < lim.bus
  /\ Commit(createChildBus(Cur, b, Cardinality(exists) + 1, TRUE, TRUE))

\* bus.createChildBus({ copyListeners, copyInterceptors })
CreateChildBusWith(b, copyListeners, copyInterceptors) ==
  /\ b \in exists /\ ~checkDisposed(Cur, b)
  /\ Cardinality(exists) < lim.bus
  /\ Commit(createChildBus(Cur, b, Cardinality(exists) + 1, copyListeners, copyInterceptors))

\* createMessageBus(): the next unused bus object becomes a second root.
CreateMessageBus ==
  /\ Cardinality(exists) < lim.bus
  /\ Commit([Cur EXCEPT !.exists = @ \cup {Cardinality(exists) + 1}])

DisposeBus(b) ==
  /\ b \in exists /\ ~disposed[b]
  /\ Commit(Bus_dispose(Cur, b))

\* The job at the head of the microtask queue runs to completion.
RunMicrotask ==
  /\ micro # <<>>
  /\ LET j == Head(micro)
         w == [Cur EXCEPT !.micro = Tail(@)]
     IN  \E w1 \in {CASE j.type = "drain" -> drainPublishQueue(w, j.bus)
                       [] j.type = "veto" -> runVeto(w, j)
                       [] j.type = "lazy" -> LazyAsyncRegistration_handler(w, j.reg, j.msg)
                       [] j.type = "finally" -> Registration_dispose(w, j.reg)} :
           Commit(w1)

\* The promise a slow isVetoed returned settles: the veto check resumes.
ResumeVeto ==
  \E j \in waiting :
    Commit([Cur EXCEPT !.waiting = @ \ {j}, !.micro = Append(@, j)])

\* ------------------------------------------------------------ API calls
\* The outcome of one call of the public API: the state it leaves and whether
\* it threw at the call site.
Throws(w) == [w |-> w, threw |-> TRUE]

Returns(w) == [w |-> w, threw |-> FALSE]

Apis ==
  {"publish", "publishAsync", "subscribe", "subscribeOnce", "createChildBus",
   "withLimit", "withPriority", "addListener", "removeListener",
   "addInterceptor", "removeInterceptor"}

\* bus.<api>(...) on bus b, with a multicast topic, a handler, a listener and
\* an interceptor as arguments.
Call(w, b, api) ==
  CASE api = "publish" ->
         IF checkDisposed(w, b) THEN Throws(w)
         ELSE Returns(publishOn(w, b, "T", FALSE, 0))
    [] api = "publishAsync" ->
         IF checkDisposed(w, b) THEN Throws(w)
         ELSE Returns(publishOn(w, b, "T", TRUE, 0))
    [] api = "subscribe" ->
         IF subscribeThrows(w, b, <<"T">>) THEN Throws(w)
         ELSE Returns(subscribeImpl(w, b, <<"T">>, "handler", "val", defaultLimit,
                                    defaultPriority))
    [] api = "subscribeOnce" ->
         IF subscribeThrows(w, b, <<"T">>) THEN Throws(w)
         ELSE Returns(subscribeImpl(w, b, <<"T">>, "handler", "val", 1, defaultPriority))
    [] api = "createChildBus" ->
         IF checkDisposed(w, b) THEN Throws(w)
         ELSE IF Bus \ w.exists = {} THEN Returns(w)
         ELSE Returns(createChildBus(w, b, CHOOSE c \in Bus \ w.exists : TRUE, TRUE, TRUE))
    [] api \in {"withLimit", "withPriority"} ->
         IF checkDisposed(w, b) THEN Throws(w) ELSE Returns(w)
    [] api = "addListener" ->
         IF checkDisposed(w, b) THEN Throws(w)
         ELSE Returns([w EXCEPT !.listeners[b] = SetAdd(@, "L1")])
    [] api = "removeListener" ->
         IF checkDisposed(w, b) THEN Throws(w)
         ELSE Returns([w EXCEPT !.listeners[b] = RemoveFirst(@, "L1")])
    [] api = "addInterceptor" ->
         IF checkDisposed(w, b) THEN Throws(w)
         ELSE Returns([w EXCEPT !.interceptors[b] = SetAdd(@, "plain"),
                                !.composed[b] = NoChain])
    [] api = "removeInterceptor" ->
         IF checkDisposed(w, b) THEN Throws(w)
         ELSE Returns([w EXCEPT !.interceptors[b] = RemoveFirst(@, "plain"),
                                !.composed[b] = NoChain])

\* ------------------------------------------------------ specifications
\* The scenarios subscribe before the first publish (Setup) unless stated.
Setup == msgs = <<>>

RegIds == 1..Len(regs)

\* The scenarios with a tree of buses and awaited publishes create the buses
\* first and then subscribe bus by bus: the order of two subscribe calls on
\* different buses changes nothing but the identities of the registrations.
Building == regs = <<>> /\ msgs = <<>>

BusByBus(b) == IF regs = <<>> THEN TRUE ELSE regs[Len(regs)].bus <= b

\* Nothing is left to run: every promise of the messages published so far has
\* settled.
Quiet == micro = <<>> /\ waiting = {} /\ \A b \in Bus : queue[b] = <<>>

\* One bus, one multicast topic: callback and pull-based subscriptions, a
\* handler and a listener that publish from inside the dispatch.
InitOrder == InitBus /\ lim = Limits(1, OrderMsgs, OrderRegs)

NextOrder ==
  \/ Setup /\ \E hb \in {"val", "pub"} : Subscribe(1, <<"T">>, hb, defaultPriority)
  \/ Setup /\ SubscribeLazy(1, <<"T">>, defaultPriority)
  \/ Setup /\ \E r \in RegIds : Pull(r)
  \/ Setup /\ AddListener(1, "LP")
  \/ Publish(1, "T")
  \/ RunMicrotask

SpecOrder == InitOrder /\ [][NextOrder]_vars

\* One bus, one multicast topic: callback subscriptions with priorities,
\* some disposed again before the publish.
InitPrio == InitBus /\ lim = Limits(1, PrioMsgs, PrioRegs)

NextPrio ==
  \/ Setup /\ \E p \in 0..2 : Subscribe(1, <<"T">>, "val", p)
  \/ Setup /\ \E r \in RegIds : Dispose(r)
  \/ Publish(1, "T")
  \/ RunMicrotask

SpecPrio == InitPrio /\ [][NextPrio]_vars

\* One bus, one multicast topic: subscriptions disposed at any moment by user
\* code, or by the handler of another subscription during a dispatch.
InitDisp == InitBus /\ lim = Limits(1, DispMsgs, DispRegs)

NextDisp ==
  \/ Setup /\ \E hb \in {"val", "disp"}, p \in 0..1 : Subscribe(1, <<"T">>, hb, p)
  \/ \E r \in RegIds : Dispose(r)
  \/ Publish(1, "T")
  \/ RunMicrotask

SpecDisp == InitDisp /\ [][NextDisp]_vars

\* One bus, one multicast topic, interceptors added and removed at any moment;
\* the veto check of one of them takes an arbitrary time.
InitVeto == InitBus /\ lim = Limits(1, VetoMsgs, VetoRegs)

NextVeto ==
  \/ Setup /\ \E hb \in {"val", "pub"} : Subscribe(1, <<"T">>, hb, defaultPriority)
  \/ \E k \in {"plain", "slow"} : AddInterceptor(1, k)
  \/ \E k \in {"plain", "slow"} : RemoveInterceptor(1, k)
  \/ Publish(1, "T")
  \/ RunMicrotask
  \/ ResumeVeto

SpecVeto == InitVeto /\ [][NextVeto]_vars

\* A tree of buses built before the first publish, callback subscriptions
\* on any bus, messages published on any bus to a topic broadcast to the
\* children.
InitDown == InitBus /\ lim = Limits(DownBus, DownMsgs, DownRegs)

NextDown ==
  \/ Setup /\ \E b \in Bus : CreateChildBus(b)
  \/ Setup /\ \E b \in Bus : Subscribe(b, <<"T">>, "val", defaultPriority)
  \/ \E b \in Bus : Publish(b, "T")
  \/ RunMicrotask

SpecDown == InitDown /\ [][NextDown]_vars

\* The same with a topic broadcast to the parent.
InitUp == InitBus /\ lim = Limits(UpBus, UpMsgs, UpRegs)

NextUp ==
  \/ Setup /\ \E b \in Bus : CreateChildBus(b)
  \/ Setup /\ \E b \in Bus : Subscribe(b, <<"P">>, "val", defaultPriority)
  \/ \E b \in Bus : Publish(b, "P")
  \/ RunMicrotask

SpecUp == InitUp /\ [][NextUp]_vars

\* Bus trees and separate roots created and disposed at any moment, callback
\* and pull-based subscriptions to a unicast topic made and disposed at any
\* moment; no message is published.
InitUni == InitBus /\ lim = Limits(UniBus, 0, UniRegs)

NextUni ==
  \/ CreateMessageBus
  \/ \E b \in Bus : CreateChildBus(b)
  \/ \E b \in Bus, ts \in {<<"U">>, <<"T", "U">>} : Subscribe(b, ts, "val", defaultPriority)
  \/ \E b \in Bus : SubscribeLazy(b, <<"U">>, defaultPriority)
  \/ \E r \in RegIds : Dispose(r)
  \/ \E b \in Bus : DisposeBus(b)

SpecUni == InitUni /\ [][NextUni]_vars

\* A tree of buses, callback subscriptions with priorities to both multicast
\* topics, every handler returning a value; each message is published with
\* publishAsync once the promise of the one before has settled.
InitAll == InitBus /\ lim = Limits(AllBus, AllMsgs, AllRegs)

NextAll ==
  \/ Building /\ \E b \in Bus : CreateChildBus(b)
  \/ Setup /\ \E b \in Bus, p \in 0..1 : BusByBus(b) /\ Subscribe(b, <<"T", "P">>, "val", p)
  \/ Quiet /\ \E b \in Bus, t \in {"T", "P"} : PublishAsync(b, t)
  \/ RunMicrotask

SpecAll == InitAll /\ [][NextAll]_vars

\* A tree of buses, callback subscriptions whose handlers return a value or
\* throw, messages published with publishAsync one after the other.
InitAgg == InitBus /\ lim = Limits(AggBus, AggMsgs, AggRegs)

NextAgg ==
  \/ Building /\ \E b \in Bus : CreateChildBus(b)
  \/ Setup /\ \E b \in Bus, hb \in {"val", "err"} :
                BusByBus(b) /\ Subscribe(b, <<"T">>, hb, defaultPriority)
  \/ Quiet /\ \E b \in Bus : PublishAsync(b, "T")
  \/ RunMicrotask

SpecAgg == InitAgg /\ [][NextAgg]_vars

\* A tree of buses, callback subscriptions to the two unicast topics, some
\* disposed again, messages published with publishAsync one after the other.
InitAsk == InitBus /\ lim = Limits(AskBus, AskMsgs, AskRegs)

NextAsk ==
  \/ Building /\ \E b \in Bus : CreateChildBus(b)
  \/ Setup /\ \E b \in Bus, t \in {"U", "UP"} :
                BusByBus(b) /\ Subscribe(b, <<t>>, "val", defaultPriority)
  \/ Setup /\ \E r \in RegIds : Dispose(r)
  \/ Quiet /\ \E b \in Bus, t \in {"U", "UP"} : PublishAsync(b, t)
  \/ RunMicrotask

SpecAsk == InitAsk /\ [][NextAsk]_vars

\* A bus with a listener and child buses, callback subscriptions on any bus;
\* interceptors that let every message pass or veto every message are added
\* and removed between the messages; each message is published, with publish
\* or with publishAsync, once the one before is through.
InitStop == InitBus /\ lim = Limits(StopBus, StopMsgs, StopRegs)

NextStop ==
  \/ Building /\ \E b \in Bus : CreateChildBus(b)
  \/ Setup /\ \E b \in Bus : BusByBus(b) /\ Subscribe(b, <<"T">>, "val", defaultPriority)
  \/ Setup /\ AddListener(1, "L1")
  \/ Quiet /\ \E k \in {"pass", "veto"} : AddInterceptor(1, k)
  \/ Quiet /\ \E k \in {"pass", "veto"} : RemoveInterceptor(1, k)
  \/ Quiet /\ \E b \in Bus : Publish(b, "T")
  \/ Quiet /\ \E b \in Bus : PublishAsync(b, "T")
  \/ RunMicrotask

SpecStop == InitStop /\ [][NextStop]_vars

\* A bus and its child buses, callback subscriptions to both multicast topics
\* whose handlers return a value or throw; each message is published, with
\* publish or with publishAsync, once the one before is through.
InitErr == InitBus /\ lim = Limits(ErrBus, ErrMsgs, ErrRegs)

NextErr ==
  \/ Building /\ \E b \in Bus : CreateChildBus(b)
  \/ Setup /\ \E b \in Bus, hb \in {"val", "err"} :
                BusByBus(b) /\ Subscribe(b, <<"T", "P">>, hb, defaultPriority)
  \/ Quiet /\ \E b \in Bus, t \in {"T", "P"} : Publish(b, t)
  \/ Quiet /\ \E b \in Bus, t \in {"T", "P"} : PublishAsync(b, t)
  \/ RunMicrotask

SpecErr == InitErr /\ [][NextErr]_vars

\* A bus and its child buses, a listener added to any of them before the
\* first publish (a child created later copies it) and removed between the
\* messages; callback subscriptions to both multicast topics; the messages are
\* published one after the other.
InitLis == InitBus /\ lim = Limits(LisBus, LisMsgs, LisRegs)

NextLis ==
  \/ Building /\ \E b \in Bus : CreateChildBus(b)
  \/ Setup /\ \E b \in Bus : BusByBus(b) /\ Subscribe(b, <<"T", "P">>, "val", defaultPriority)
  \/ Setup /\ \E b \in Bus : AddListener(b, "L1")
  \/ ~Setup /\ Quiet /\ \E b \in Bus : RemoveListener(b, "L1")
  \/ Quiet /\ \E b \in Bus, t \in {"T", "P"} : Publish(b, t)
  \/ RunMicrotask

SpecLis == InitLis /\ [][NextLis]_vars

\* One bus with up to two listeners; callback subscriptions, some for one
\* message only, and pull-based subscriptions that may be pulled; the messages
\* are published one after the other.
InitTell == InitBus /\ lim = Limits(1, TellMsgs, TellRegs)

NextTell ==
  \/ Setup /\ Subscribe(1, <<"T">>, "val", defaultPriority)
  \/ Setup /\ SubscribeOnce(1, <<"T">>, "val")
  \/ Setup /\ SubscribeLazy(1, <<"T">>, defaultPriority)
  \/ Setup /\ \E r \in RegIds : Pull(r)
  \/ Setup /\ \E l \in {"L1", "L2"} : AddListener(1, l)
  \/ Quiet /\ Publish(1, "T")
  \/ RunMicrotask

SpecTell == InitTell /\ [][NextTell]_vars

\* A tree of buses created, subscribed to and disposed at any moment; a
\* subscribe call may list a topic twice, which makes it throw after the
\* registration has been listed under the topic once.  No message is published.
InitDie == InitBus /\ lim = Limits(DieBus, 0, DieRegs)

NextDie ==
  \/ \E b \in Bus : CreateChildBus(b)
  \/ \E b \in Bus, ts \in {<<"T">>, <<"T", "P">>, <<"T", "T">>} :
       BusByBus(b) /\ Subscribe(b, ts, "val", defaultPriority)
  \/ \E b \in Bus : BusByBus(b) /\ SubscribeLazy(b, <<"T">>, defaultPriority)
  \/ \E b \in Bus : DisposeBus(b)

SpecDie == InitDie /\ [][NextDie]_vars

\* A bus and its child buses with a listener and callback subscriptions to
\* both multicast topics; messages are published on any bus and any bus is
\* disposed at any moment, also between the jobs of a message.
InitGone == InitBus /\ lim = Limits(GoneBus, GoneMsgs, GoneRegs)

NextGone ==
  \/ Building /\ \E b \in Bus : CreateChildBus(b)
  \/ Setup /\ \E b \in Bus : BusByBus(b) /\ Subscribe(b, <<"T", "P">>, "val", defaultPriority)
  \/ Setup /\ \E b \in Bus : AddListener(b, "L1")
  \/ \E b \in Bus, t \in {"T", "P"} : Publish(b, t)
  \/ \E b \in Bus : DisposeBus(b)
  \/ RunMicrotask

SpecGone == InitGone /\ [][NextGone]_vars

\* Handler-less subscriptions to a unicast and to a multicast topic, made over a
\* small tree, pulled and disposed in any order; nothing is published.
InitHold == InitBus /\ lim = Limits(HoldBus, 0, HoldRegs)

NextHold ==
  \/ Building /\ \E b \in Bus : CreateChildBus(b)
  \/ \E b \in Bus, t \in {"T", "U"} : SubscribeLazy(b, <<t>>, defaultPriority)
  \/ \E r \in 1..HoldRegs + 1 : Pull(r)
  \/ \E r \in 1..HoldRegs + 1 : Dispose(r)

SpecHold == InitHold /\ [][NextHold]_vars

\* Pull-based subscriptions on one bus: next() is called at any moment, also
\* while earlier calls wait and after the disposal of the subscription.
InitPull == InitBus /\ lim = Limits(1, PullMsgs, PullRegs)

NextPull ==
  \/ Setup /\ SubscribeLazy(1, <<"T">>, defaultPriority)
  \/ \E r \in 1..PullRegs + 1 : NextCall(r, PullCalls)
  \/ \E r \in 1..PullRegs + 1 : Dispose(r)
  \/ Quiet /\ Publish(1, "T")
  \/ RunMicrotask

SpecPull == InitPull /\ [][NextPull]_vars

\* Subscriptions with a limit on one bus, callback and pull-based, receiving
\* more messages than their limit.
InitLimit == InitBus /\ lim = Limits(1, LimitMsgs, LimitRegs)

NextLimit ==
  \/ Setup /\ \E n \in 1..LimitMax : SubscribeWithLimit(1, <<"T">>, "handler", "val", n)
  \/ Setup /\ \E n \in 1..LimitMax : SubscribeWithLimit(1, <<"T">>, "lazy", "none", n)
  \/ \E r \in 1..LimitRegs + 1 : NextCall(r, LimitCalls)
  \/ Quiet /\ Publish(1, "T")
  \/ RunMicrotask

SpecLimit == InitLimit /\ [][NextLimit]_vars

\* Callback subscriptions to several topics at once on one bus, disposed at any
\* moment between the publishes and the dispatches.
InitMany == InitBus /\ lim = Limits(1, ManyMsgs, ManyRegs)

NextMany ==
  \/ Setup /\ \E ts \in {<<"T", "P">>, <<"P", "T">>, <<"P">>} :
                Subscribe(1, ts, "val", defaultPriority)
  \/ \E r \in 1..ManyRegs + 1 : Dispose(r)
  \/ Quiet /\ \E t \in {"T", "P"} : Publish(1, t)
  \/ RunMicrotask

SpecMany == InitMany /\ [][NextMany]_vars

\* One bus whose interceptors, of every kind, are added before anything else;
\* callback subscriptions and awaited messages.
InitChain == InitBus /\ lim = Limits(1, ChainMsgs, ChainRegs)

NextChain ==
  \/ Building /\ Len(interceptors[1]) < ChainLen /\ \E k \in Interceptors : AddInterceptor(1, k)
  \/ Setup /\ \E hb \in {"echo", "val"} : Subscribe(1, <<"T">>, hb, defaultPriority)
  \/ Quiet /\ PublishAsync(1, "T")
  \/ RunMicrotask
  \/ ResumeVeto

SpecChain == InitChain /\ [][NextChain]_vars

\* Subscriptions made through a builder on one bus: the builders are those
\* that withLimit and withPriority return and those with both options set.
Builders ==
  {withLimit(n) : n \in 1..BuildMax} \cup {withPriority(p) : p \in 0..BuildMax}
  \cup {Builder_withPriority(withLimit(n), p) : n \in 1..BuildMax, p \in 0..BuildMax}
  \cup {Builder_withLimit(withPriority(p), n) : n \in 1..BuildMax, p \in 0..BuildMax}

InitBuild == InitBus /\ lim = Limits(1, BuildMsgs, BuildRegs)

NextBuild ==
  \/ Setup /\ \E bd \in Builders, kind \in {"handler", "lazy"} :
                BuilderSubscribe(1, bd, <<"T">>, kind, IF kind = "lazy" THEN "none" ELSE "val")
  \/ Setup /\ \E bd \in Builders, kind \in {"handler", "lazy"} :
                BuilderSubscribeOnce(1, bd, <<"T">>, kind, "val")
  \/ \E r \in 1..Len(regs) : regs[r].hb = "none" /\ NextCall(r, 1)
  \/ Quiet /\ Publish(1, "T")
  \/ RunMicrotask

SpecBuild == InitBuild /\ [][NextBuild]_vars

\* Child buses created with any options while listeners and interceptors come
\* and go on every bus, before the first publish; messages published on any bus.
InitCopy == InitBus /\ lim = Limits(CopyBus, CopyMsgs, 0)

NextCopy ==
  \/ Setup /\ \E b \in Bus, cl, ci \in BOOLEAN : CreateChildBusWith(b, cl, ci)
  \/ Setup /\ \E b \in Bus : AddListener(b, "L1")
  \/ Setup /\ \E b \in Bus : RemoveListener(b, "L1")
  \/ Setup /\ \E b \in Bus : AddInterceptor(b, "veto")
  \/ Setup /\ \E b \in Bus : RemoveInterceptor(b, "veto")
  \/ Quiet /\ \E b \in Bus : Publish(b, "T")
  \/ RunMicrotask

SpecCopy == InitCopy /\ [][NextCopy]_vars

\* One bus with a listener, an interceptor and callback subscriptions, one of
\* which publishes again; publish and publishAsync are called at any moment,
\* also while a drain is pending.
InitPost == InitBus /\ lim = Limits(1, PostMsgs, PostRegs)

NextPost ==
  \/ Setup /\ \E hb \in {"val", "pub"} : Subscribe(1, <<"T">>, hb, defaultPriority)
  \/ Setup /\ AddListener(1, "L1")
  \/ Setup /\ AddInterceptor(1, "pass")
  \/ Publish(1, "T")
  \/ PublishAsync(1, "T")
  \/ RunMicrotask

SpecPost == InitPost /\ [][NextPost]_vars

\* Publishes on a bus whose veto checks may publish in turn.  The event loop
\* runs a queued microtask whenever there is one.
DrainMsgs == 2
DrainRegs == 1

InitDrain == InitBus /\ lim = Limits(1, DrainMsgs, DrainRegs)

NextDrain ==
  \/ Setup /\ Subscribe(1, <<"T">>, "val", defaultPriority)
  \/ Setup /\ \E k \in {"pass", "asks"} : AddInterceptor(1, k)
  \/ Publish(1, "T")
  \/ RunMicrotask

SpecDrainFair == InitDrain /\ [][NextDrain]_vars /\ WF_vars(RunMicrotask)

\* Awaited publishes on a bus with a child, either of which may be disposed
\* while messages wait in the queues.
LostBus == 2
LostMsgs == 2
LostRegs == 2

InitLost == InitBus /\ lim = Limits(LostBus, LostMsgs, LostRegs)

NextLost ==
  \/ Building /\ CreateChildBus(1)
  \/ Setup /\ \E b \in Bus : BusByBus(b) /\ Subscribe(b, <<"T">>, "val", defaultPriority)
  \/ PublishAsync(1, "T")
  \/ \E b \in Bus : DisposeBus(b)
  \/ RunMicrotask

SpecLost == InitLost /\ [][NextLost]_vars

\* Callback and pull-based subscriptions of one topic with different
\* priorities, the pull-based ones pulled before the publish.
MixMsgs == 2
MixRegs == 2
MixCalls == 1

InitMix == InitBus /\ lim = Limits(1, MixMsgs, MixRegs)

NextMix ==
  \/ Setup /\ \E p \in 0..1 : Subscribe(1, <<"T">>, "val", p)
  \/ Setup /\ \E p \in 0..1 : SubscribeLazy(1, <<"T">>, p)
  \/ Setup /\ \E r \in 1..MixRegs + 1 : NextCall(r, MixCalls)
  \/ Quiet /\ Publish(1, "T")
  \/ RunMicrotask

SpecMix == InitMix /\ [][NextMix]_vars

\* Publishes on a bus with a child, a listener and subscribers, where one of
\* the interceptors of the bus has an isVetoed that throws.
FailBus == 2
FailMsgs == 2
FailRegs == 2

InitFail == InitBus /\ lim = Limits(FailBus, FailMsgs, FailRegs)

NextFail ==
  \/ Building /\ CreateChildBus(1)
  \/ Setup /\ \E b \in Bus : BusByBus(b) /\ Subscribe(b, <<"T">>, "val", defaultPriority)
  \/ Setup /\ AddListener(1, "L1")
  \/ Setup /\ \E k \in {"pass", "throws"} : AddInterceptor(1, k)
  \/ Publish(1, "T")
  \/ PublishAsync(1, "T")
  \/ RunMicrotask

SpecFail == InitFail /\ [][NextFail]_vars

\* Awaited publishes to a unicast topic on a tree of buses, some of which were
\* disposed, possibly by a dispose() that threw on a registration left by a
\* failed subscribe([T, T]).
SplitBus == 3
SplitMsgs == 1
SplitRegs == 3

InitSplit == InitBus /\ lim = Limits(SplitBus, SplitMsgs, SplitRegs)

NextSplit ==
  \/ Building /\ \E b \in Bus : CreateChildBus(b)
  \/ Setup /\ \E b \in Bus, ts \in {<<"U">>, <<"T", "T">>} :
                Subscribe(b, ts, "val", defaultPriority)
  \/ Setup /\ \E b \in Bus : DisposeBus(b)
  \/ Quiet /\ \E b \in Bus : PublishAsync(b, "U")
  \/ RunMicrotask

SpecSplit == InitSplit /\ [][NextSplit]_vars

\* ---------------------------------------------------------------- claims
LogIdx == 1..Len(log)

IsHandlerEv(i) == log[i].k = "handler"

\* Events through which a message reaches a subscriber, a listener or a
\* broadcast target.
IsFanOutEv(i) == log[i].k \in {"listener", "broadcast", "handler", "deliver"}

IsReceiveEv(i) == log[i].k \in {"handler", "deliver"}

\* The buses above b in its tree, by the parent references.
RECURSIVE Ancestors(_)
Ancestors(b) == IF parent[b] = NoBus THEN {} ELSE {parent[b]} \cup Ancestors(parent[b])

InSubtree(c, b) == c = b \/ b \in Ancestors(c)

MsgIds == 1..Len(msgs)

\* Registration r subscribes to the topic of message m.
Matches(r, m) == Contains(regs[r].topics, msgs[m].topic)

\* The handler of registration r has been invoked for message m before
\* position j of the log.
InvokedBefore(r, m, j) ==
  \E i \in 1..(j - 1) : IsHandlerEv(i) /\ log[i].who = r /\ log[i].msg = m

Invocations(r, m) == {i \in LogIdx : IsHandlerEv(i) /\ log[i].who = r /\ log[i].msg = m}

\* The root of the tree of b, by the parent references.
RECURSIVE RootOf(_)
RootOf(b) == IF parent[b] = NoBus THEN b ELSE RootOf(parent[b])

\* The registrations for topic t that are not disposed.
Live(t) == {r \in RegIds : ~regs[r].isDisposed /\ Contains(regs[r].topics, t)}

\* The buses a message published on b to topic t is broadcast through, in
\* the order in which their results are put together: b, then each child
\* with its own descendants (or the parent alone).
RECURSIVE Traversal(_, _)
Traversal(b, t) ==
  IF broadcastDirection(t) = "children"
  THEN <<b>> \o Flatten([i \in 1..Len(children[b]) |-> Traversal(children[b][i], t)])
  ELSE IF parent[b] # NoBus THEN <<b, parent[b]>> ELSE <<b>>

\* A set of registrations in ascending priority value, ties by age.
RECURSIVE ByPriority(_)
ByPriority(S) ==
  IF S = {} THEN <<>>
  ELSE LET r == CHOOSE x \in S : \A y \in S \ {x} :
                  \/ regs[x].priority < regs[y].priority
                  \/ regs[x].priority = regs[y].priority /\ x < y
       IN  <<r>> \o ByPriority(S \ {r})

\* The registrations message m is meant for, in the order of Traversal.
Matched(m) ==
  LET t == msgs[m].topic
      bs == Traversal(msgs[m].bus, t)
  IN  Flatten([i \in 1..Len(bs) |-> ByPriority({r \in Live(t) : regs[r].bus = bs[i]})])

Fails(r) == regs[r].hb = "err"

Succeeds(r) == regs[r].hb # "err"

ExpectedValues(m) ==
  LET rs == SelectSeq(Matched(m), Succeeds) IN [i \in 1..Len(rs) |-> Val(rs[i], m)]

ExpectedErrors(m) ==
  LET rs == SelectSeq(Matched(m), Fails) IN [i \in 1..Len(rs) |-> Err(rs[i], m)]

\* The errors thrown for message m in the order in which the handlers ran.
ErrorsAsInvoked(m) ==
  LET IsFailure(e) == e.k = "handler" /\ e.msg = m /\ Fails(e.who)
      es == SelectSeq(log, IsFailure)
  IN  [i \in 1..Len(es) |-> Err(es[i].who, m)]

Settled(m) == msgs[m].awaitable /\ publishAsync(Cur, m).kind # "pending"

\* C1: for one callback subscription, messages published on its bus to one
\* topic reach its handler in the order of the publish calls, whatever the
\* interceptors installed and however long a veto check takes.
C1_PublishOrder ==
  \A i, j \in LogIdx :
    ( /\ i < j
      /\ IsHandlerEv(i) /\ IsHandlerEv(j)
      /\ log[i].who = log[j].who
      /\ msgs[log[i].msg].topic = msgs[log[j].msg].topic
      /\ msgs[log[i].msg].bus = log[i].bus
      /\ msgs[log[j].msg].bus = log[j].bus )
    => log[i].msg < log[j].msg

\* C2 (first part): a message published from inside a handler or listener
\* during the dispatch of m on a bus has no listener notified and no
\* subscriber reached on that bus before every listener notification,
\* handler invocation, delivery and broadcast enqueue of m on that bus.
C2_NestedAfterFanOut ==
  \A i, j \in LogIdx :
    ( /\ IsFanOutEv(i) /\ IsFanOutEv(j)
      /\ log[i].bus = log[j].bus
      /\ msgs[log[j].msg].cause = log[i].msg )
    => i < j

\* C2 (second part): between two handler invocations
\* of one message on a bus no handler of that bus is invoked for another
\* message.
C2_CallbacksNotInterleaved ==
  \A i, j, k \in LogIdx :
    ( /\ i < j /\ j < k
      /\ IsHandlerEv(i) /\ IsHandlerEv(j) /\ IsHandlerEv(k)
      /\ log[i].bus = log[k].bus /\ log[j].bus = log[i].bus
      /\ log[i].msg = log[k].msg )
    => log[j].msg = log[i].msg

\* C2: a message published from inside a handler or listener waits for the
\* fan-out of the message being dispatched, and the handler invocations of two
\* messages on one bus are never interleaved.
C2_NestedPublishWaits == C2_NestedAfterFanOut /\ C2_CallbacksNotInterleaved

\* C2 witness: a nested message has reached a handler after the message whose
\* handler published it had reached two subscribers.
C2_Witness ==
  \E i, j, k \in LogIdx :
    /\ i < j /\ j < k
    /\ IsReceiveEv(i) /\ IsReceiveEv(j) /\ IsHandlerEv(k)
    /\ log[i].msg = log[j].msg
    /\ msgs[log[k].msg].cause = log[i].msg
    /\ regs[log[i].who].hb = "pub"

\* C3: for one message on one bus the callback handlers run in ascending
\* priority value, equal priorities in subscription order; once the message
\* is through, every live callback subscription has run exactly once.
C3_PriorityOrder ==
  /\ \A i, j \in LogIdx :
       ( /\ i < j
         /\ IsHandlerEv(i) /\ IsHandlerEv(j)
         /\ log[i].msg = log[j].msg /\ log[i].bus = log[j].bus )
       => \/ regs[log[i].who].priority < regs[log[j].who].priority
          \/ /\ regs[log[i].who].priority = regs[log[j].who].priority
             /\ log[i].who < log[j].who
  /\ Quiet =>
       \A m \in 1..Len(msgs) : \A r \in RegIds :
         Cardinality({i \in LogIdx : IsHandlerEv(i) /\ log[i].msg = m /\ log[i].who = r})
           = IF regs[r].isDisposed THEN 0 ELSE 1

\* C3 witness: three handlers have run for one message although they were
\* subscribed in descending priority value, two of them with equal priority.
C3_Witness ==
  \E i, j, k \in LogIdx :
    /\ i < j /\ j < k
    /\ IsHandlerEv(i) /\ IsHandlerEv(j) /\ IsHandlerEv(k)
    /\ log[i].msg = log[j].msg /\ log[j].msg = log[k].msg
    /\ log[i].who > log[j].who
    /\ regs[log[j].who].priority = regs[log[k].who].priority
    /\ regs[log[j].who].priority = defaultPriority

\* C7: once dispose() of a callback subscription has returned, its handler is
\* never invoked again.
C7_NoInvocationAfterDispose ==
  \A i, j \in LogIdx :
    (log[i].k = "dispose" /\ IsHandlerEv(j) /\ log[i].who = log[j].who) => j < i

\* C4: a message published on bus B to a topic broadcast to the children
\* reaches the subscriptions of B and of the descendants of B only, each at
\* most once and, once the queues are empty, exactly once; a handler on a bus
\* other than B runs after every handler of that bus's parent has run.
C4_ChildrenBroadcast ==
  /\ \A j \in LogIdx : IsHandlerEv(j) =>
       /\ InSubtree(log[j].bus, msgs[log[j].msg].bus)
       /\ log[j].bus # msgs[log[j].msg].bus =>
            \A r \in RegIds :
              (regs[r].bus = parent[log[j].bus] /\ Matches(r, log[j].msg))
                => InvokedBefore(r, log[j].msg, j)
  /\ \A m \in MsgIds : \A r \in RegIds :
       /\ Cardinality(Invocations(r, m)) <= 1
       /\ (Quiet /\ Matches(r, m) /\ InSubtree(regs[r].bus, msgs[m].bus))
            => Cardinality(Invocations(r, m)) = 1

\* C4 witness: a message published on a bus has reached a subscription on a
\* grandchild after one on the child between them, and an ancestor of the
\* publishing bus or a bus outside its subtree has a subscription too.
C4_Witness ==
  /\ Quiet
  /\ \E i, j \in LogIdx :
       /\ i < j /\ IsHandlerEv(i) /\ IsHandlerEv(j)
       /\ log[i].msg = log[j].msg
       /\ parent[log[j].bus] = log[i].bus
       /\ parent[log[i].bus] = msgs[log[i].msg].bus
  /\ Len(regs) >= 3

\* C5: a message published on bus B to a topic broadcast to the parent reaches
\* the subscriptions of B and of B's parent only, each at most once and, once
\* the queues are empty, exactly once; a handler on the parent runs after
\* every handler of B has run.
C5_ParentBroadcast ==
  /\ \A j \in LogIdx : IsHandlerEv(j) =>
       LET B == msgs[log[j].msg].bus
       IN  /\ log[j].bus \in {B, parent[B]}
           /\ log[j].bus # B =>
                \A r \in RegIds :
                  (regs[r].bus = B /\ Matches(r, log[j].msg))
                    => InvokedBefore(r, log[j].msg, j)
  /\ \A m \in MsgIds : \A r \in RegIds :
       /\ Cardinality(Invocations(r, m)) <= 1
       /\ (Quiet /\ Matches(r, m) /\ regs[r].bus \in {msgs[m].bus, parent[msgs[m].bus]})
            => Cardinality(Invocations(r, m)) = 1

\* C5 witness: a message published on a grandchild bus has reached the
\* subscription of that bus and then the one of its parent, the root has a
\* subscription as well, and nothing is left to run.
C5_Witness ==
  /\ Quiet
  /\ \E i, j \in LogIdx : \E r \in RegIds :
       /\ i < j /\ IsHandlerEv(i) /\ IsHandlerEv(j)
       /\ log[i].msg = log[j].msg
       /\ log[i].bus = msgs[log[i].msg].bus
       /\ log[j].bus = parent[log[i].bus]
       /\ regs[r].bus = parent[log[j].bus]

C9_ErrorsAggregated ==
  \A m \in MsgIds :
    (Settled(m) /\ ExpectedErrors(m) # <<>>)
      => publishAsync(Cur, m) =
           [kind |-> "rejected",
            v |-> IF Len(ExpectedErrors(m)) = 1 THEN ExpectedErrors(m)[1]
                  ELSE <<"AggregateError", ExpectedErrors(m)>>]

\* C9 as stated: the errors of the AggregateError are in the order in which
\* the handlers were invoked.
C9_ErrorsAsInvoked ==
  \A m \in MsgIds :
    (Settled(m) /\ Len(ExpectedErrors(m)) >= 2)
      => publishAsync(Cur, m) = [kind |-> "rejected",
                                 v |-> <<"AggregateError", ErrorsAsInvoked(m)>>]

\* C9 witness: a publishAsync with two failing handlers on different buses
\* has been rejected.
C9_Witness ==
  \E m \in MsgIds :
    /\ Settled(m)
    /\ Len(ExpectedErrors(m)) = 2
    /\ regs[SelectSeq(Matched(m), Fails)[1]].bus # regs[SelectSeq(Matched(m), Fails)[2]].bus
    /\ publishAsync(Cur, m).kind = "rejected"

\* C10: publishAsync on a unicast topic resolves to the value of the one
\* handler of the topic in the broadcast scope, not to a list, and rejects
\* with 'no subscribers' when the scope holds no registration for the topic.
C10_UnicastResult ==
  \A m \in MsgIds :
    (Settled(m) /\ mode(msgs[m].topic) = "unicast")
      => publishAsync(Cur, m) =
           IF Matched(m) = <<>>
           THEN [kind |-> "rejected", v |-> <<"no subscribers">>]
           ELSE [kind |-> "resolved", v |-> Val(Matched(m)[1], m)]

\* C10 witness: a publishAsync on a unicast topic has resolved to the value
\* of a handler registered on another bus than the publishing one.
C10_Witness ==
  \E m \in MsgIds :
    /\ Settled(m) /\ mode(msgs[m].topic) = "unicast"
    /\ publishAsync(Cur, m).kind = "resolved"
    /\ regs[Matched(m)[1]].bus # msgs[m].bus

\* The veto check of bus b has returned true for message m.
Vetoed(m, b) == \E i \in LogIdx : log[i].k = "vetoed" /\ log[i].msg = m /\ log[i].bus = b

\* C11: a message whose veto check returns true on a bus has no handler
\* invoked, no listener notified and no broadcast made on that bus; vetoed on
\* the bus it was published on, it reaches no bus at all.
C11_VetoSuppresses ==
  \A m \in MsgIds : \A b \in Bus : Vetoed(m, b) =>
    \A i \in LogIdx : (IsFanOutEv(i) /\ log[i].msg = m)
                        => (log[i].bus # b /\ msgs[m].bus # b)

\* C11 witness: a message has been vetoed on its publishing bus, which has a
\* listener, a subscription and a child with a subscription, under a chain of
\* two interceptors.
C11_Witness ==
  /\ Quiet
  /\ \E m \in MsgIds :
       /\ Vetoed(m, msgs[m].bus)
       /\ listeners[msgs[m].bus] # <<>>
       /\ \E r \in Live("T") : regs[r].bus = msgs[m].bus
       /\ \E r \in Live("T") : parent[regs[r].bus] = msgs[m].bus
       /\ Len(composed[msgs[m].bus]) = 2

\* C12: an awaited publish whose veto check returns true on the publishing
\* bus is rejected with the 'has been vetoed' error.
C12_VetoedRejection ==
  \A m \in MsgIds :
    (Settled(m) /\ Vetoed(m, msgs[m].bus))
      => publishAsync(Cur, m) = [kind |-> "rejected", v |-> <<"has been vetoed">>]

\* The calls of the error callback for the failure of registration r on
\* message m.
ErrorCalls(r, m) == {i \in LogIdx : log[i].k = "error" /\ log[i].who = r /\ log[i].msg = m}

\* C13 (state part): in a fire-and-forget publish the error callback is
\* called once for each invocation of a failing handler and for nothing else,
\* on the bus on which the handler ran; and once the message is through every
\* matched handler of the publishing bus and of the broadcast targets has been
\* invoked once, whichever handlers failed.
C13_EachFailureOnce ==
  /\ \A i \in LogIdx : log[i].k = "error" =>
       /\ log[i].bus = regs[log[i].who].bus
       /\ ~msgs[log[i].msg].awaitable
  /\ \A m \in MsgIds : ~msgs[m].awaitable =>
       \A r \in RegIds :
         /\ Cardinality(ErrorCalls(r, m))
              = IF Fails(r) THEN Cardinality(Invocations(r, m)) ELSE 0
         /\ Quiet => Cardinality(Invocations(r, m))
                       = IF r \in SeqSet(Matched(m)) THEN 1 ELSE 0

\* C13 (call part): the step of a publish call invokes no handler and calls no
\* error callback, so that no failure reaches the caller.
C13_PublishReturns == Len(msgs') > Len(msgs) => log' = log

\* C13: a failing handler of a fire-and-forget publish does not make publish
\* throw and keeps the message from no other handler of its bus and from no
\* broadcast target; each failure goes once to the error callback of the bus
\* on which the handler ran.
C13_FireAndForgetFailures == []C13_EachFailureOnce /\ [][C13_PublishReturns]_vars

\* C13 witness: a fire-and-forget message is through, a failing handler of the
\* publishing bus ran before another handler of that bus, a failing handler
\* ran on a broadcast target, and both failures reached the error callback.
C13_Witness ==
  /\ Quiet
  /\ \E m \in MsgIds : \E r1, r2, r3 \in RegIds :
       /\ ~msgs[m].awaitable
       /\ r1 < r2
       /\ regs[r1].bus = msgs[m].bus /\ regs[r2].bus = msgs[m].bus
       /\ regs[r3].bus # msgs[m].bus
       /\ Fails(r1) /\ Fails(r3)
       /\ Invocations(r2, m) # {}
       /\ ErrorCalls(r1, m) # {} /\ ErrorCalls(r3, m) # {}

\* C14: no error callback of any bus is called for a handler failure of an
\* awaited publish, on the publishing bus or on a broadcast target; the failure
\* is in the rejection of the promise.
C14_AwaitedFailuresNotHandled ==
  \A m \in MsgIds : msgs[m].awaitable =>
    /\ \A i \in LogIdx : log[i].k = "error" => log[i].msg # m
    /\ (Settled(m) /\ ExpectedErrors(m) # <<>>) => publishAsync(Cur, m).kind = "rejected"

\* C14 witness: an awaited publish has been rejected after a handler failed on
\* the publishing bus and another on a broadcast target.
C14_Witness ==
  \E m \in MsgIds : \E r1, r2 \in RegIds :
    /\ Settled(m)
    /\ publishAsync(Cur, m).kind = "rejected"
    /\ Fails(r1) /\ Fails(r2)
    /\ regs[r1].bus = msgs[m].bus /\ regs[r2].bus # msgs[m].bus
    /\ Invocations(r1, m) # {} /\ Invocations(r2, m) # {}

IsListenerEv(i) == log[i].k = "listener"

\* C15 (step): a listener notified in a step is notified of a message that
\* was published on the listener's bus, and is in the listener set of that
\* bus.
C15_Step ==
  \A i \in (Len(log) + 1)..Len(log') : log'[i].k = "listener" =>
    /\ log'[i].bus = msgs'[log'[i].msg].bus
    /\ Contains(listeners[log'[i].bus], log'[i].who)

\* C15: a listener is notified of a message on the bus on which the message
\* was published only, never on a bus the message reaches through broadcast,
\* and only while it is in the listener set: a removed listener is not
\* notified of a later message.
C15_ListenersOnPublishingBus == [][C15_Step]_vars

\* C15 witness: a listener was notified of a message and is no longer in the
\* listener set, a later message published on the same bus went to a handler
\* on another bus that has a listener of its own, and nothing is left to run.
C15_Witness ==
  /\ Quiet
  /\ \E i, k \in LogIdx :
       /\ i < k
       /\ IsListenerEv(i)
       /\ ~Contains(listeners[log[i].bus], log[i].who)
       /\ IsHandlerEv(k) /\ log[k].msg > log[i].msg
       /\ msgs[log[k].msg].bus = log[i].bus
       /\ log[k].bus # log[i].bus
       /\ listeners[log[k].bus] # <<>>

\* The position of listener l in the listener set of bus b.
ListenerIndex(b, l) == CHOOSE i \in 1..Len(listeners[b]) : listeners[b][i] = l

\* The deliveries of message m on bus b: handler invocations and hand-overs to
\* pull-based subscriptions.
Deliveries(m, b) == {i \in LogIdx : IsReceiveEv(i) /\ log[i].msg = m /\ log[i].bus = b}

\* C16 without the count: each listener of the publishing bus is notified of a
\* message at most once and, when the message is through, once; in the order
\* in which the listeners were added; before every delivery of the message.
C16_ListenersOnceInOrder ==
  /\ \A i, j \in LogIdx : (IsListenerEv(i) /\ IsListenerEv(j) /\ i < j
                              /\ log[i].msg = log[j].msg) =>
       /\ log[i].who # log[j].who
       /\ (Contains(listeners[log[i].bus], log[i].who)
              /\ Contains(listeners[log[j].bus], log[j].who))
            => ListenerIndex(log[i].bus, log[i].who) < ListenerIndex(log[j].bus, log[j].who)
  /\ \A i, j \in LogIdx : (IsListenerEv(i) /\ IsReceiveEv(j) /\ log[i].msg = log[j].msg)
       => i < j
  /\ Quiet => \A m \in MsgIds : \A l \in SeqSet(listeners[msgs[m].bus]) :
       \E i \in LogIdx : IsListenerEv(i) /\ log[i].msg = m /\ log[i].who = l

\* C16 (count): when the message is through, the count a listener received is
\* the number of deliveries of the message on the publishing bus.
C16_CountIsDeliveries ==
  Quiet => \A i \in LogIdx : IsListenerEv(i) =>
    log[i].n = Cardinality(Deliveries(log[i].msg, log[i].bus))

\* C16: every listener of the publishing bus is notified once, in the order
\* the listeners were added, before any handler, with the number of active
\* registrations the message is then delivered to, also when that is 0.
C16_ListenersNotified == C16_ListenersOnceInOrder /\ C16_CountIsDeliveries

\* C17: a disposed bus has every descendant disposed and every registration
\* made on it disposed, is in the child set of no bus, and dispose() on it
\* again changes nothing and does not throw.
C17_DisposeCascades ==
  \A b \in exists : disposed[b] =>
    /\ \A c \in exists : b \in Ancestors(c) => disposed[c]
    /\ \A r \in RegIds : regs[r].bus = b => regs[r].isDisposed
    /\ \A p \in exists : ~Contains(children[p], b)
    /\ Bus_disposeCall(Cur, b) = [w |-> Cur, threw |-> FALSE]

\* C18: on a disposed bus every call of publish, publishAsync, subscribe,
\* subscribeOnce, createChildBus, withLimit, withPriority, addListener,
\* removeListener, addInterceptor and removeInterceptor throws at the call
\* site and leaves the state of every bus as it was.
C18_DisposedBusThrows ==
  \A b \in exists : disposed[b] =>
    \A api \in Apis : Call(Cur, b, api) = Throws(Cur)

\* C18 witness: a disposed bus whose parent is not disposed, next to a bus
\* that is not disposed and accepts the same calls.
C18_Witness ==
  \E b, c \in exists :
    /\ disposed[b] /\ parent[b] # NoBus /\ ~disposed[parent[b]]
    /\ c # b /\ ~disposed[c]
    /\ \A api \in Apis : ~Call(Cur, c, api).threw

\* C19 (step): the step is a job of a message on a bus that is disposed (the
\* drain of its queue, or the veto check of a message taken from it before the
\* disposal), and it notifies no listener, invokes no handler and enqueues the
\* message on no other bus.
C19_Step ==
  ( /\ micro # <<>>
    /\ msgs' = msgs /\ disposed' = disposed
    /\ Head(micro).type \in {"drain", "veto"}
    /\ disposed[Head(micro).bus] )
  => /\ \A i \in (Len(log) + 1)..Len(log') :
          log'[i].k \notin {"listener", "broadcast", "handler", "deliver"}
     /\ queue' = queue

\* C19: once a bus is disposed no message that was pending on it or was being
\* processed by it reaches a listener or a handler or is forwarded to its
\* parent or children.
C19_NothingAfterDispose == [][C19_Step]_vars

\* A pull-based registration on which next() or single() has been called, or
\* that holds a delivery.
Pulled(r) == regs[r].promiseQueue > 0 \/ regs[r].pulled # <<>> \/ regs[r].dataQueue # <<>>

Listed(r) == \A t \in SeqSet(regs[r].topics) : Contains(registry[regs[r].bus][t], r)

NeverPulled(r) == regs[r].promiseQueue = 0 /\ regs[r].pulled = <<>>

LazyJobsFor(q, r) == Cardinality({i \in 1..Len(q) : q[i].type = "lazy" /\ q[i].reg = r})

C22_UnpulledIdle ==
  \A r \in 1..Len(regs) :
    regs[r].kind = "lazy" /\ NeverPulled(r)
    => /\ regs[r].dataQueue = <<>>
       /\ ~regs[r].isActive
       /\ LazyJobsFor(micro, r) = 0
       /\ ~\E i \in LogIdx : log[i].k = "deliver" /\ log[i].who = r
       /\ \A t \in Topics : ~Contains(getAll(Cur, regs[r].bus, t, TRUE), r)

C22_Step ==
  \A r \in 1..Len(regs) :
    regs[r].kind = "lazy" /\ LazyJobsFor(micro', r) > LazyJobsFor(micro, r)
    => regs[r].isActive

C22_UnpulledReceivesNothing == []C22_UnpulledIdle /\ [][C22_Step]_vars

C22_Witness ==
  \E r \in 1..Len(regs) :
    /\ regs[r].kind = "lazy" /\ NeverPulled(r) /\ ~regs[r].isDisposed
    /\ regs[r].born = 0
    /\ Len(msgs) = PullMsgs /\ Quiet

\* C23: for a pull-based subscription without limit, the values its next()
\* calls have returned, followed by its backlog, are the messages delivered to
\* it, each once and in publish order; a call waits only while the backlog is
\* empty; and a message is scheduled for delivery to it exactly when the message
\* is dispatched on its bus while the subscription is active.
Returned(r) ==
  LET got == SelectSeq(regs[r].pulled, LAMBDA x : ~x.done)
  IN  [i \in 1..Len(got) |-> got[i].value]

Delivered(r) ==
  LET evs == SelectSeq(log, LAMBDA e : e.k = "deliver" /\ e.who = r)
  IN  [i \in 1..Len(evs) |-> evs[i].msg]

Scheduled(q, r) ==
  LET jobs == SelectSeq(q, LAMBDA j : j.type = "lazy" /\ j.reg = r)
  IN  [i \in 1..Len(jobs) |-> jobs[i].msg]

Increasing(s) == \A i, j \in 1..Len(s) : i < j => s[i] < s[j]

Dispatching(b, id) ==
  /\ micro # <<>> /\ micro' # micro
  /\ Head(micro).type = "veto" /\ Head(micro).i = 0 - 1 /\ ~Head(micro).vetoed
  /\ Head(micro).bus = b /\ Head(micro).task.id = id

C23_InOrderOnce ==
  \A r \in 1..Len(regs) :
    regs[r].kind = "lazy" /\ regs[r].remaining = defaultLimit
    => /\ Returned(r) \o regs[r].dataQueue = Delivered(r)
       /\ Increasing(Delivered(r) \o Scheduled(micro, r))
       /\ regs[r].promiseQueue > 0 => regs[r].dataQueue = <<>>

C23_Step ==
  \A r \in 1..Len(regs), id \in 1..Len(msgs) :
    regs[r].kind = "lazy" /\ regs[r].remaining = defaultLimit
    => ((\E i \in 1..Len(micro') : micro'[i] = LazyJob(r, id)) /\
        ~(\E i \in 1..Len(micro) : micro[i] = LazyJob(r, id))
        <=> Dispatching(regs[r].bus, id) /\ regs[r].isActive
            /\ Contains(regs[r].topics, msgs[id].topic))

C23_PulledInPublishOrder == []C23_InOrderOnce /\ [][C23_Step]_vars

C23_Witness ==
  \E r \in 1..Len(regs) :
    /\ regs[r].kind = "lazy" /\ regs[r].remaining = defaultLimit
    /\ Len(Returned(r)) >= 1 /\ regs[r].dataQueue # <<>>
    /\ Returned(r)[1] > 1

\* C24: a subscription with a limit never has a negative remaining count; the
\* messages it has received (handler invocations of a callback subscription,
\* deliveries to a pull-based one) plus its remaining count stay what they were
\* when it was created with nothing received, so it receives at most as many as
\* its limit; and a pull-based subscription has returned no more values than it
\* was delivered.
Received(r) ==
  Cardinality({i \in LogIdx : log[i].k \in {"handler", "deliver"} /\ log[i].who = r})

ReceivedNext(r) ==
  Cardinality({i \in 1..Len(log') : log'[i].k \in {"handler", "deliver"} /\ log'[i].who = r})

Limited(r) == regs[r].remaining # defaultLimit

C24_Bounded ==
  \A r \in 1..Len(regs) :
    Limited(r) => regs[r].remaining >= 0 /\ Len(Returned(r)) <= Received(r)

C24_Step ==
  /\ \A r \in 1..Len(regs) :
        Limited(r) => ReceivedNext(r) + regs'[r].remaining = Received(r) + regs[r].remaining
  /\ \A r \in Len(regs) + 1..Len(regs') : ReceivedNext(r) = 0

C24_AtMostLimit == []C24_Bounded /\ [][C24_Step]_vars

C24_Witness ==
  \E r, s \in 1..Len(regs) :
    /\ regs[r].kind = "handler" /\ regs[r].remaining = 0 /\ Received(r) = LimitMax
    /\ regs[s].kind = "lazy" /\ regs[s].remaining = 0 /\ Len(Returned(s)) = LimitMax
    /\ Len(msgs) > LimitMax /\ Quiet

\* C25 as stated: once a subscription with a limit has been delivered its last
\* message and the bus has come to rest, before any further publish, the
\* subscription is disposed and no topic lists it.
C25_DisposedAtLimit ==
  \A r \in 1..Len(regs) :
    Limited(r) /\ regs[r].remaining = 0 /\ Quiet
    => regs[r].isDisposed /\ ~Listed(r)

\* C26 as stated: once a pull-based subscription is disposed and the bus has
\* come to rest, none of its next() calls is still waiting and no topic lists
\* it.
C26_DisposeEndsPulls ==
  \A r \in 1..Len(regs) :
    regs[r].kind = "lazy" /\ regs[r].isDisposed /\ Quiet
    => /\ regs[r].promiseQueue = 0
       /\ \A t \in Topics : ~Contains(registry[regs[r].bus][t], r)

\* C27: the handler of a callback subscription is invoked for a message exactly
\* when the message is dispatched on its bus, its topic is one of the topics of
\* the subscription and the subscription is not disposed; a disposed
\* subscription is listed under no topic, and a further dispose() neither throws
\* nor changes anything.
HandledBy(l, r, id) ==
  \E i \in 1..Len(l) : l[i].k = "handler" /\ l[i].who = r /\ l[i].msg = id

C27_Unlisted ==
  \A r \in 1..Len(regs) :
    regs[r].isDisposed
    => /\ \A t \in Topics : ~Contains(registry[regs[r].bus][t], r)
       /\ ~Registration_disposeThrows(Cur, r)
       /\ Registration_dispose(Cur, r) = Cur

C27_Step ==
  \A r \in 1..Len(regs), id \in 1..Len(msgs) :
    regs[r].kind = "handler"
    => (HandledBy(log', r, id) /\ ~HandledBy(log, r, id)
        <=> Dispatching(regs[r].bus, id) /\ ~regs[r].isDisposed
            /\ Contains(regs[r].topics, msgs[id].topic))

C27_ManyTopicsOneDispose == []C27_Unlisted /\ [][C27_Step]_vars

C27_Witness ==
  \E r \in 1..Len(regs), i, j, k \in 1..Len(msgs) :
    /\ Len(regs[r].topics) = 2 /\ regs[r].isDisposed
    /\ msgs[i].topic = "T" /\ HandledBy(log, r, i)
    /\ msgs[j].topic = "P" /\ HandledBy(log, r, j)
    /\ ~HandledBy(log, r, k) /\ Quiet

\* C28: the result of a handler invocation is the handler's value wrapped by
\* each tagging interceptor in turn, the one added first innermost and the one
\* added last outermost; the handler is called with the names the interceptors
\* passed to next, the name of the interceptor added last coming last since it
\* ran first and each later-run interceptor puts its own name in front.
TagsOf(chain) == SelectSeq(chain, LAMBDA k : k \in Taggers)

RECURSIVE WrapAll(_, _)
WrapAll(v, tags) ==
  IF tags = <<>> THEN v
  ELSE WrapAll([result |-> v, by |-> Head(tags)], Tail(tags))

HandlerValue(r, m, tags) ==
  IF regs[r].hb = "echo" THEN [data |-> m, other |-> tags] ELSE Val(r, m)

C28_NewestOutermost ==
  \A m \in MsgIds :
    rep[m][1].st = "done"
    => LET tags == TagsOf(interceptors[1])
           rs == Matched(m)
       IN  rep[m][1].vals = [i \in 1..Len(rs) |-> WrapAll(HandlerValue(rs[i], m, tags), tags)]

C28_Witness ==
  \E m \in MsgIds :
    /\ rep[m][1].st = "done"
    /\ interceptors[1] = <<"I2", "plain", "I1">>
    /\ rep[m][1].vals = <<[result |-> [result |-> [data |-> m, other |-> <<"I2", "I1">>],
                                       by |-> "I2"],
                           by |-> "I1"]>>

\* C29: while the veto check of a message is at interceptor i, or waits for it,
\* no interceptor added after i vetoes (those were consulted first and the check
\* stops at the first veto, so nothing added before a vetoing interceptor is
\* ever consulted or waited for); the check ends with a veto exactly when some
\* interceptor of the chain has an isVetoed returning true, so an interceptor
\* without isVetoed never vetoes; and a message is recorded as vetoed only then.
VetoJobs == {micro[i] : i \in {x \in 1..Len(micro) : micro[x].type = "veto"}} \cup waiting

C29_NewestConsultedFirst ==
  /\ \A j \in VetoJobs :
        /\ j.i >= 1 => \A k \in j.i + 1..Len(j.chain) : j.chain[k] # "veto"
        /\ j.i <= 0 => (j.vetoed <=> Contains(j.chain, "veto"))
  /\ \A m \in MsgIds : Vetoed(m, msgs[m].bus) => Contains(interceptors[msgs[m].bus], "veto")

C29_Witness ==
  \E m \in MsgIds :
    /\ interceptors[1] = <<"slow", "plain", "veto">>
    /\ Vetoed(m, 1) /\ Quiet

\* C30 as stated: on a bus that accepts a subscription to T,
\* bus.withPriority(p).subscribeOnce(T) and
\* bus.withPriority(p).subscribeOnce(T, handler) do not throw and create a
\* subscription with priority p and one message to receive.
C30_OnceKeepsPriority ==
  \A p \in 0..BuildMax, kind \in {"handler", "lazy"} :
    (~checkDisposed(Cur, 1) /\ ~subscribeThrows(Cur, 1, <<"T">>))
    => /\ ~Builder_subscribeOnceThrows(Cur, 1, withPriority(p), <<"T">>)
       /\ LET w == Builder_subscribeOnce(Cur, 1, withPriority(p), <<"T">>, kind, "val")
          IN  /\ Len(w.regs) = Len(regs) + 1
              /\ w.regs[Len(w.regs)].priority = p
              /\ w.regs[Len(w.regs)].remaining = 1

\* C31: createChildBus on any live bus gives the child the parent's listeners
\* and interceptors as they are at the call, each unless its option is false,
\* and leaves the parent's alone; afterwards a step that changes the listeners
\* or the interceptors of one bus changes those of no other bus; and on a
\* dispatch the listeners notified on a bus are the bus's own.
C31_CopiedAtCreation ==
  \A b \in exists, cl, ci \in BOOLEAN :
    ~disposed[b]
    => LET c == Cardinality(exists) + 1
           w == createChildBus(Cur, b, c, cl, ci)
       IN  /\ w.listeners[c] = IF cl THEN listeners[b] ELSE <<>>
           /\ w.interceptors[c] = IF ci THEN interceptors[b] ELSE <<>>
           /\ w.listeners[b] = listeners[b] /\ w.interceptors[b] = interceptors[b]

C31_Step ==
  /\ \A b, c \in exists :
        b # c => /\ listeners'[b] # listeners[b] => listeners'[c] = listeners[c]
                 /\ interceptors'[b] # interceptors[b] => interceptors'[c] = interceptors[c]
  /\ \A i \in Len(log) + 1..Len(log') :
        log'[i].k = "listener" => Contains(listeners[log'[i].bus], log'[i].who)

C31_ChildSetsOwn == []C31_CopiedAtCreation /\ [][C31_Step]_vars

C31_Witness ==
  \E c \in exists :
    /\ parent[c] # NoBus
    /\ listeners[c] = <<"L1">> /\ listeners[parent[c]] = <<>>
    /\ interceptors[c] = <<>> /\ interceptors[parent[c]] = <<"veto">>
    /\ \E i \in LogIdx : log[i].k = "listener" /\ log[i].bus = c /\ log[i].who = "L1"

\* C32: the step of a publish or publishAsync call made by user code appends
\* the message to the queue of its bus and, when no drain was pending on that
\* bus, schedules one; it starts no veto check, notifies no listener, invokes no
\* handler and changes nothing else.
UserPublish == Len(msgs') = Len(msgs) + 1 /\ msgs'[Len(msgs')].cause = 0

C32_Step ==
  UserPublish
  => LET id == Len(msgs')
         b == msgs'[id].bus
     IN  /\ log' = log /\ regs' = regs /\ waiting' = waiting
         /\ queue' = [queue EXCEPT ![b] = Append(@, [id |-> id, broadcast |-> TRUE,
                                                     listeners |-> TRUE])]
         /\ publishing' = [publishing EXCEPT ![b] = TRUE]
         /\ micro' = IF publishing[b] THEN micro ELSE Append(micro, DrainJob(b))

C32_PublishOnlyEnqueues == [][C32_Step]_vars

C32_Witness ==
  \E i, j \in MsgIds :
    /\ i < j /\ msgs[i].cause = 0 /\ msgs[j].cause = 0
    /\ msgs[i].awaitable /\ ~msgs[j].awaitable
    /\ Len(queue[1]) = 2 /\ micro = <<DrainJob(1)>> /\ log = <<>>
    /\ listeners[1] # <<>> /\ interceptors[1] # <<>> /\ regs # <<>>

\* C33: on a bus that is not disposed, a non-empty queue has a drain turn
\* scheduled and the draining flag set, and a clear flag means an empty queue;
\* a drain turn leaves the queue empty and the flag clear, having started the
\* veto check of every task that was queued and of every message published
\* while it ran; and a non-empty queue is eventually empty.
C33_DrainPending ==
  \A b \in exists :
    ~disposed[b]
    => /\ queue[b] # <<>> => publishing[b] /\ Contains(micro, DrainJob(b))
       /\ ~publishing[b] => queue[b] = <<>>

\* The step that runs the drain turn of bus b.
DrainTurn(b) == micro # <<>> /\ Head(micro) = DrainJob(b) /\ ~Contains(micro', DrainJob(b))

C33_Step ==
  \A b \in exists :
    DrainTurn(b) /\ ~disposed[b]
    => /\ queue'[b] = <<>> /\ ~publishing'[b]
       /\ \A id \in 1..Len(msgs') :
            (id > Len(msgs) \/ \E i \in 1..Len(queue[b]) : queue[b][i].id = id)
            => \E j \in {micro'[x] : x \in 1..Len(micro')} \cup waiting' :
                 j.type = "veto" /\ j.bus = b /\ j.task.id = id

C33_QueueDrained ==
  /\ []C33_DrainPending
  /\ [][C33_Step]_vars
  /\ \A b \in 1..1 : (queue[b] # <<>>) ~> (queue[b] = <<>>)

\* Two messages were checked in one drain turn, the second published by the
\* veto check of the first.
C33_Witness ==
  /\ queue[1] = <<>> /\ ~publishing[1] /\ Len(micro) >= 2
  /\ \E i, j \in MsgIds :
       /\ msgs[j].cause = i /\ msgs[i].cause = 0
       /\ micro[1].type = "veto" /\ micro[1].task.id = i /\ micro[1].i = Len(micro[1].chain)
       /\ micro[2].type = "veto" /\ micro[2].task.id = j /\ micro[2].i = Len(micro[2].chain)

\* C34: once no microtask is queued and no veto check is outstanding, every
\* promise returned by publishAsync has settled, also when a bus was disposed
\* between the call and the drain of its queue.
C34_AllSettled ==
  micro = <<>> /\ waiting = {} => \A m \in MsgIds : msgs[m].awaitable => Settled(m)

\* C35: a cached chain is always the chain of the bus's current interceptor
\* set, and every message a drain turn takes from the queue is checked, and
\* later wrapped, by the chain of the interceptors the bus has at that moment.
C35_CacheCurrent ==
  \A b \in exists : composed[b] # NoChain => composed[b] = interceptors[b]

C35_Step ==
  \A b \in exists :
    DrainTurn(b) /\ ~disposed[b]
    => \A j \in {micro'[x] : x \in 1..Len(micro')} \cup waiting' :
         (/\ j.type = "veto" /\ j.bus = b
          /\ \E i \in 1..Len(queue[b]) : queue[b][i].id = j.task.id)
         => j.chain = interceptors'[b] /\ interceptors'[b] = interceptors[b]

C35_ChainOfCurrentSet == []C35_CacheCurrent /\ [][C35_Step]_vars

\* Two messages are being checked by different chains: the later one by the
\* chain of the current set, composed after an interceptor was added.
C35_Witness ==
  \E j1, j2 \in VetoJobs :
    /\ j1.bus = 1 /\ j2.bus = 1 /\ j1.task.id < j2.task.id
    /\ j1.chain # j2.chain /\ Len(j1.chain) < Len(j2.chain)
    /\ j2.chain = interceptors[1] /\ composed[1] = interceptors[1]

\* C36: when the handler of a callback registration has been invoked for a
\* message, every pull-based registration with a lower priority value that the
\* same dispatch serves has already received that message.
C36_PriorityAcrossKinds ==
  \A i \in LogIdx :
    log[i].k = "handler"
    => \A r \in RegIds :
         (/\ regs[r].kind = "lazy"
          /\ regs[r].priority < regs[log[i].who].priority
          /\ \/ Contains(micro, LazyJob(r, log[i].msg))
             \/ \E d \in LogIdx : log[d].k = "deliver" /\ log[d].who = r
                                  /\ log[d].msg = log[i].msg)
         => \E d \in 1..i : log[d].k = "deliver" /\ log[d].who = r /\ log[d].msg = log[i].msg

\* C37: when the veto check of a message throws, the message reaches no
\* handler, no listener and no broadcast target; a fire-and-forget publish
\* hands the error to the error callback exactly once, an awaited publish hands
\* it nothing and rejects with that error.
CheckOver(m) ==
  /\ \A i \in 1..Len(queue[1]) : queue[1][i].id # m
  /\ \A j \in VetoJobs : j.task.id # m

CheckErrors(m) == {i \in LogIdx : log[i].k = "error" /\ log[i].msg = m}

C37_CheckThrows ==
  Contains(interceptors[1], "throws")
  => \A m \in MsgIds :
       /\ \A i \in LogIdx : log[i].msg = m => log[i].k = "error" /\ log[i].bus = 1
       /\ \A c \in Bus \ {1} : queue[c] = <<>>
       /\ IF msgs[m].awaitable
          THEN /\ CheckErrors(m) = {}
               /\ CheckOver(m) => publishAsync(Cur, m) = [kind |-> "rejected", v |-> VetoError]
               /\ ~CheckOver(m) => publishAsync(Cur, m).kind = "pending"
          ELSE /\ Cardinality(CheckErrors(m)) = IF CheckOver(m) THEN 1 ELSE 0

\* Both kinds of publish went through a throwing check on a bus that has a
\* listener, a subscriber and a child with a subscriber.
C37_Witness ==
  /\ Contains(interceptors[1], "throws") /\ listeners[1] # <<>>
  /\ registry[1]["T"] # <<>> /\ children[1] # <<>> /\ registry[2]["T"] # <<>>
  /\ \E m, n \in MsgIds :
       /\ msgs[m].awaitable /\ ~msgs[n].awaitable
       /\ CheckOver(m) /\ CheckOver(n) /\ micro = <<>>
       /\ Cardinality(CheckErrors(n)) = 1

\* C38: no awaited publish to a unicast topic is rejected with the 'multiple
\* result values' error.
C38_NeverMultipleValues ==
  \A m \in MsgIds :
    msgs[m].awaitable /\ mode(msgs[m].topic) = "unicast"
    => publishAsync(Cur, m) # [kind |-> "rejected", v |-> <<"multiple result values">>]

\* C39: a subscribe call that throws leaves every registry as it was.  The
\* calls that throw on a disposed bus, an empty topic list or a unicast conflict
\* are no steps; a call whose topic array lists a topic twice throws in the
\* constructor of the registration, and is the step looked at here.
ListsTwice(ts) == \E i, j \in 1..Len(ts) : i < j /\ ts[i] = ts[j]

ThrowingSubscribe ==
  Len(regs') = Len(regs) + 1 /\ ListsTwice(regs'[Len(regs')].topics)

C39_Step == ThrowingSubscribe => registry' = registry

C39_FailedSubscribeAddsNothing == [][C39_Step]_vars

\* C40: the bus tree is consistent in every state: a child of a live bus is
\* live and has that bus as its parent; the parent of a live bus is live and
\* lists it as a child; a disposed bus has no registration, child, listener or
\* interceptor.
C40_TreeConsistent ==
  \A b \in exists :
    /\ ~disposed[b]
       => /\ \A i \in 1..Len(children[b]) :
               ~disposed[children[b][i]] /\ parent[children[b][i]] = b
          /\ parent[b] # NoBus => ~disposed[parent[b]] /\ Contains(children[parent[b]], b)
    /\ disposed[b]
       => /\ \A t \in Topics : registry[b][t] = <<>>
          /\ children[b] = <<>> /\ listeners[b] = <<>> /\ interceptors[b] = <<>>

====
